---- MODULE Spec2Model ----
\* Model of the notebook editing tools of the_notebook_mcp:
\*   core/notebook_ops.py   (is_path_allowed, read_notebook, write_notebook)
\*   tools/cell_tools.py    (edit, add, delete, move, split, merge, change type, duplicate)
\*   tools/file_tools.py    (create, delete, rename)
\*   tools/info_tools.py, metadata_tools.py, output_tools.py (index-taking reads and edits)
\* Python strings are sequences of one-character strings.
EXTENDS Integers, Sequences, FiniteSets, TLC

VARIABLES
    config,   \* ServerConfig: allow_root_dirs, max_cell_source_size
    files,    \* the filesystem's regular files: canonical path -> notebook document
    dirs,     \* the filesystem's directories: set of canonical paths
    call,     \* the last tool invocation: op, arguments, result, file system calls issued
    steps,    \* number of tool invocations so far
    tasks,    \* tool invocations in flight in concurrent server processes
    kernel_cache,   \* CellToolsProvider._kernel_cache: key -> kernel client
    kernel_starts   \* the kernel clients whose start() has returned

vars == <<config, files, dirs, call, steps, tasks, kernel_cache, kernel_starts>>

\* ------------------------------------------------------------------ bounds
MaxSteps == 2
MaxCells == 3
SmallCellSourceSize == 3

\* ------------------------------------------------------------------ strings
None == "None"

\* x is None, for an x that may be a number
IsNone(x) == ToString(x) = ToString(None)

RECURSIVE Concat(_)
Concat(ss) == IF ss = <<>> THEN <<>> ELSE Head(ss) \o Concat(Tail(ss))

startswith(s, prefix) ==
    /\ Len(prefix) <= Len(s)
    /\ SubSeq(s, 1, Len(prefix)) = prefix

endswith(s, suffix) ==
    /\ Len(suffix) <= Len(s)
    /\ SubSeq(s, Len(s) - Len(suffix) + 1, Len(s)) = suffix

Front(s) == SubSeq(s, 1, Len(s) - 1)

\* ------------------------------------------------------------------ paths
sep == <<"/">>
curdir == <<".">>
pardir == <<".", ".">>
IpynbExt == <<".", "i", "p", "y", "n", "b">>

\* str.split(sep): the components between separators
RECURSIVE SplitFrom(_, _)
SplitFrom(s, cur) ==
    IF s = <<>> THEN <<cur>>
    ELSE IF Head(s) = "/" THEN <<cur>> \o SplitFrom(Tail(s), <<>>)
    ELSE SplitFrom(Tail(s), Append(cur, Head(s)))

Split(s) == SplitFrom(s, <<>>)

\* "/" + "/".join(components)
RECURSIVE JoinComps(_)
JoinComps(cs) ==
    IF cs = <<>> THEN <<>> ELSE sep \o Head(cs) \o JoinComps(Tail(cs))

PathOf(cs) == IF cs = <<>> THEN sep ELSE JoinComps(cs)

\* The process's working directory and the symbolic links of the host.
\* /r is the workspace; /s and /r2 lie outside it; /r/l is a link to /s and
\* /rl is a link to /r.
cwd == <<<<"r">>>>

SymlinkTarget(cs) ==
    IF cs = <<<<"r">>, <<"l">>>> THEN <<"/", "s">>
    ELSE IF cs = <<<<"r", "l">>>> THEN <<"/", "r">>
    ELSE <<>>

islink(cs) == SymlinkTarget(cs) # <<>>

isabs(p) == startswith(p, sep)

\* posixpath._joinrealpath: walk the components, dropping "" and ".",
\* popping on "..", and following links
RECURSIVE joinrealpath(_, _)
joinrealpath(path, rest) ==
    IF rest = <<>> THEN path
    ELSE LET name == Head(rest)
             tl == Tail(rest)
         IN  IF name = <<>> \/ name = curdir THEN joinrealpath(path, tl)
             ELSE IF name = pardir
                  THEN joinrealpath(IF path = <<>> THEN <<>> ELSE Front(path), tl)
             ELSE LET newpath == Append(path, name)
                  IN  IF islink(newpath)
                      THEN joinrealpath(
                               joinrealpath(<<>>, Split(SymlinkTarget(newpath))), tl)
                      ELSE joinrealpath(newpath, tl)

\* os.path.realpath: a relative path is resolved against the working directory
realpath(p) ==
    PathOf(joinrealpath(IF isabs(p) THEN <<>> ELSE cwd, Split(p)))

\* os.path.dirname of a resolved path: everything before the last separator
dirname(p) == PathOf(Front(Tail(Split(p))))

\* ------------------------------------------------------------------ is_path_allowed
\* a prefix test that forgets the separator
RootMatchesPrefix(abs_target_path, abs_allowed_root) ==
    startswith(abs_target_path, abs_allowed_root)

RootMatches(abs_target_path, abs_allowed_root) ==
    \/ startswith(abs_target_path, abs_allowed_root \o sep)
    \/ abs_target_path = abs_allowed_root

is_path_allowed(target_path, allowed_roots) ==
    IF allowed_roots = <<>> THEN FALSE
    ELSE LET abs_target_path == realpath(target_path)
         IN  \E i \in 1..Len(allowed_roots) :
                 RootMatches(abs_target_path, realpath(allowed_roots[i]))

\* ------------------------------------------------------------------ sizes
\* len(s.encode("utf-8")): "e'" stands for a two-byte character and Blob for
\* a run of BlobLen ASCII letters (no line break), so that sources at the
\* default 10 MiB limits can be written down.
max_notebook_size == 10 * 1024 * 1024
DefaultMaxCellSourceSize == 10 * 1024 * 1024
Blob == "B..B"
BlobLen == DefaultMaxCellSourceSize - 1
TwoByteChar == "e'"

CharBytes(c) ==
    IF c = Blob THEN BlobLen ELSE IF c = TwoByteChar THEN 2 ELSE 1

RECURSIVE ByteLen(_)
ByteLen(s) == IF s = <<>> THEN 0 ELSE CharBytes(Head(s)) + ByteLen(Tail(s))

\* ------------------------------------------------------------------ documents
\* A metadata map is a set of <<key, value>> pairs with distinct keys.
new_notebook == [cells |-> <<>>, metadata |-> {}]

Ids(cells) == {cells[i].id : i \in 1..Len(cells)}

\* an id generator that repeats itself
StaleId(cells) == 1

\* a cell id no cell of the notebook carries (nbformat's random_cell_id, uuid4)
FreshId(cells) ==
    CHOOSE n \in 1..(Len(cells) + 1) :
        /\ n \notin Ids(cells)
        /\ \A m \in 1..(n - 1) : m \in Ids(cells)

new_code_cell(id, source, metadata) ==
    [id |-> id, cell_type |-> "code", source |-> source, metadata |-> metadata,
     outputs |-> <<>>, execution_count |-> None, attachments |-> {}]

new_markdown_cell(id, source, metadata, attachments) ==
    [id |-> id, cell_type |-> "markdown", source |-> source, metadata |-> metadata,
     outputs |-> <<>>, execution_count |-> None, attachments |-> attachments]

new_raw_cell(id, source, metadata, attachments) ==
    [id |-> id, cell_type |-> "raw", source |-> source, metadata |-> metadata,
     outputs |-> <<>>, execution_count |-> None, attachments |-> attachments]

\* del list[index] that removes the following element instead
ListDeleteNext(list, index) ==
    SubSeq(list, 1, index + 1) \o SubSeq(list, index + 3, Len(list))

\* list.insert(index, x), del list[index], with 0-based index
ListInsert(list, index, x) ==
    SubSeq(list, 1, index) \o <<x>> \o SubSeq(list, index + 1, Len(list))

ListDelete(list, index) ==
    SubSeq(list, 1, index) \o SubSeq(list, index + 2, Len(list))

\* the 0-based cell nb.cells[i]
CellAt(nb, i) == nb.cells[i + 1]

\* len(nbformat.writes(nb).encode("utf-8")): the JSON text holds every cell
\* source and output text plus a positive amount of framing
JsonFraming == 64

\* An output is a stream (name, text), a display_data (data: the sequence of
\* <<mime type, content>> pairs of its bundle) or an error (ename, evalue,
\* traceback: a sequence of lines).
RECURSIVE TotalBytes(_)
TotalBytes(strings) ==
    IF strings = <<>> THEN 0 ELSE ByteLen(Head(strings)) + TotalBytes(Tail(strings))

OutputBytes(output) ==
    IF "data" \in DOMAIN output
    THEN TotalBytes([k \in 1..Len(output.data) |-> output.data[k][2]])
    ELSE IF "text" \in DOMAIN output THEN ByteLen(output.text)
    ELSE ByteLen(output.evalue) + TotalBytes(output.traceback)

RECURSIVE OutputsBytes(_)
OutputsBytes(outs) ==
    IF outs = <<>> THEN 0 ELSE OutputBytes(Head(outs)) + OutputsBytes(Tail(outs))

RECURSIVE CellsBytes(_)
CellsBytes(cells) ==
    IF cells = <<>> THEN 0
    ELSE ByteLen(Head(cells).source) + OutputsBytes(Head(cells).outputs)
         + CellsBytes(Tail(cells))

NotebookBytes(nb) == JsonFraming + CellsBytes(nb.cells)

\* ------------------------------------------------------------------ results
Ok == [exc |-> "ok", msg |-> "ok"]
Raise(exc, msg) == [exc |-> exc, msg |-> msg]

\* ------------------------------------------------------------------ file system
isfile(p) == p \in DOMAIN files
isdir(p) == p \in dirs
exists(p) == isfile(p) \/ isdir(p)

Sys(name, p) == [sys |-> name, path |-> p]

\* os.makedirs(p, exist_ok=True): p and its missing ancestors
RECURSIVE Ancestors(_)
Ancestors(cs) == IF cs = <<>> THEN {PathOf(<<>>)} ELSE {PathOf(cs)} \cup Ancestors(Front(cs))

makedirs(p) == dirs \cup Ancestors(Tail(Split(p)))

\* ------------------------------------------------------------------ nbformat
LineBreaks == {"\n", "\r"}

\* str.splitlines(True): the lines with their terminators
RECURSIVE splitlinesFrom(_, _)
splitlinesFrom(s, cur) ==
    IF s = <<>> THEN (IF cur = <<>> THEN <<>> ELSE <<cur>>)
    ELSE IF Head(s) = "\r" /\ Len(s) >= 2 /\ s[2] = "\n"
         THEN <<cur \o <<"\r", "\n">>>> \o splitlinesFrom(SubSeq(s, 3, Len(s)), <<>>)
    ELSE IF Head(s) \in LineBreaks
         THEN <<Append(cur, Head(s))>> \o splitlinesFrom(Tail(s), <<>>)
    ELSE splitlinesFrom(Tail(s), Append(cur, Head(s)))

\* str.splitlines(): the lines without their terminators
splitlinesDropEnds(s) ==
    LET ls == splitlinesFrom(s, <<>>)
    IN  [n \in 1..Len(ls) |-> SelectSeq(ls[n], LAMBDA c : c \notin LineBreaks)]

splitlines(s) == splitlinesFrom(s, <<>>)

\* nbformat.v4.rwbase.split_lines / rejoin_lines on an output of a code cell
SplitOutput(output) ==
    IF "data" \in DOMAIN output
    THEN [output EXCEPT !.data =
             [k \in 1..Len(output.data) |->
                 <<output.data[k][1], splitlines(output.data[k][2])>>]]
    ELSE IF output.output_type = "stream"
    THEN [output EXCEPT !.text = splitlines(@)]
    ELSE output

RejoinedOutput(output) ==
    IF "data" \in DOMAIN output
    THEN [output EXCEPT !.data =
             [k \in 1..Len(output.data) |->
                 <<output.data[k][1], Concat(output.data[k][2])>>]]
    ELSE IF output.output_type = "stream"
    THEN [output EXCEPT !.text = Concat(@)]
    ELSE output

\* the source and the output texts as lists of lines
split_lines(nb) ==
    [nb EXCEPT !.cells =
        [i \in 1..Len(nb.cells) |->
            [nb.cells[i] EXCEPT
                !.source = splitlines(@),
                !.outputs = IF nb.cells[i].cell_type = "code"
                            THEN [k \in 1..Len(@) |-> SplitOutput(@[k])]
                            ELSE @]]]

rejoin_lines(nb) ==
    [nb EXCEPT !.cells =
        [i \in 1..Len(nb.cells) |->
            [nb.cells[i] EXCEPT
                !.source = Concat(@),
                !.outputs = IF nb.cells[i].cell_type = "code"
                            THEN [k \in 1..Len(@) |-> RejoinedOutput(@[k])]
                            ELSE @]]]

\* metadata nbformat treats as transient and keeps out of files
TransientNotebookKeys == {"orig_nbformat", "orig_nbformat_minor", "signature"}
TransientCellKeys == {"trusted"}

strip_transient(nb) ==
    [nb EXCEPT
        !.metadata = {kv \in @ : kv[1] \notin TransientNotebookKeys},
        !.cells = [i \in 1..Len(nb.cells) |->
                      [nb.cells[i] EXCEPT
                          !.metadata = {kv \in @ : kv[1] \notin TransientCellKeys}]]]

\* nbformat.write(nb_node, f): the content of the file
writes(nb) == strip_transient(split_lines(nb))

\* nbformat.read(f, as_version=4) of that content
reads(content) == strip_transient(rejoin_lines(content))

\* the notebook a later read returns for the file written from nb_node
Stored(nb_node) == reads(writes(nb_node))

\* ------------------------------------------------------------------ read_notebook
\* A stored file is the notebook nbformat.read returns for it; a file whose
\* content makes nbformat.read raise carries the exception in a field
\* "raises".
Unreadable(e) == [cells |-> <<>>, metadata |-> {}, raises |-> e]

\* raise IOError(f"Failed to read notebook file '{resolved_path}': {e}") from e
ReadFailed(e) == [exc |-> "IOError", msg |-> "read_failed", text |-> e.msg]

\* a load that lets the parser's exception through
read_notebook_leaking(notebook_path, allowed_roots) ==
    IF ~isabs(notebook_path)
    THEN [result |-> Raise("ValueError", "not_absolute"), sys |-> {}, nb |-> None]
    ELSE IF ~is_path_allowed(notebook_path, allowed_roots)
    THEN [result |-> Raise("PermissionError", "access_denied"), sys |-> {}, nb |-> None]
    ELSE IF ~endswith(notebook_path, IpynbExt)
    THEN [result |-> Raise("ValueError", "file_type"), sys |-> {}, nb |-> None]
    ELSE LET resolved_path == realpath(notebook_path)
         IN  IF ~isfile(resolved_path)
             THEN [result |-> Raise("FileNotFoundError", "not_found"), sys |-> {},
                   nb |-> None]
             ELSE IF "raises" \in DOMAIN files[resolved_path]
             THEN [result |-> files[resolved_path].raises,
                   sys |-> {Sys("open_r", resolved_path)}, nb |-> None]
             ELSE [result |-> Ok, sys |-> {Sys("open_r", resolved_path)},
                   nb |-> files[resolved_path]]

read_notebook(notebook_path, allowed_roots) ==
    IF ~isabs(notebook_path)
    THEN [result |-> Raise("ValueError", "not_absolute"), sys |-> {}, nb |-> None]
    ELSE IF ~is_path_allowed(notebook_path, allowed_roots)
    THEN [result |-> Raise("PermissionError", "access_denied"), sys |-> {}, nb |-> None]
    ELSE IF ~endswith(notebook_path, IpynbExt)
    THEN [result |-> Raise("ValueError", "file_type"), sys |-> {}, nb |-> None]
    ELSE LET resolved_path == realpath(notebook_path)
         IN  IF ~isfile(resolved_path)
             THEN [result |-> Raise("FileNotFoundError", "not_found"), sys |-> {},
                   nb |-> None]
             ELSE IF "raises" \in DOMAIN files[resolved_path]
             THEN [result |-> ReadFailed(files[resolved_path].raises),
                   sys |-> {Sys("open_r", resolved_path)}, nb |-> None]
             ELSE [result |-> Ok, sys |-> {Sys("open_r", resolved_path)},
                   nb |-> files[resolved_path]]

\* ------------------------------------------------------------------ write_notebook
\* a save that does not look at the size of the serialized notebook
write_notebook_any_size(notebook_path, nb_node, allowed_roots) ==
    IF ~isabs(notebook_path)
    THEN [result |-> Raise("ValueError", "not_absolute"), sys |-> {}, files |-> files]
    ELSE IF ~is_path_allowed(notebook_path, allowed_roots)
    THEN [result |-> Raise("PermissionError", "access_denied"), sys |-> {},
          files |-> files]
    ELSE IF ~endswith(notebook_path, IpynbExt)
    THEN [result |-> Raise("ValueError", "file_type"), sys |-> {}, files |-> files]
    ELSE LET resolved_path == realpath(notebook_path)
         IN  IF isdir(resolved_path) \/ ~isdir(dirname(resolved_path))
             THEN [result |-> Raise("IOError", "open_failed"),
                   sys |-> {Sys("open_w", resolved_path)}, files |-> files]
             ELSE [result |-> Ok, sys |-> {Sys("open_w", resolved_path)},
                   files |-> [p \in DOMAIN files \cup {resolved_path} |->
                                 IF p = resolved_path THEN Stored(nb_node)
                                 ELSE files[p]]]

\* The result, the files after the call and the file system calls issued.
\* Every caller leaves max_notebook_size at its default.
write_notebook(notebook_path, nb_node, allowed_roots) ==
    IF ~isabs(notebook_path)
    THEN [result |-> Raise("ValueError", "not_absolute"), sys |-> {}, files |-> files]
    ELSE IF ~is_path_allowed(notebook_path, allowed_roots)
    THEN [result |-> Raise("PermissionError", "access_denied"), sys |-> {},
          files |-> files]
    ELSE IF ~endswith(notebook_path, IpynbExt)
    THEN [result |-> Raise("ValueError", "file_type"), sys |-> {}, files |-> files]
    ELSE LET resolved_path == realpath(notebook_path)
         IN  IF NotebookBytes(nb_node) > max_notebook_size
             THEN [result |-> Raise("IOError", "notebook_size"), sys |-> {},
                   files |-> files]
             ELSE IF isdir(resolved_path) \/ ~isdir(dirname(resolved_path))
             THEN [result |-> Raise("IOError", "open_failed"),
                   sys |-> {Sys("open_w", resolved_path)}, files |-> files]
             ELSE [result |-> Ok, sys |-> {Sys("open_w", resolved_path)},
                   files |-> [p \in DOMAIN files \cup {resolved_path} |->
                                 IF p = resolved_path THEN Stored(nb_node)
                                 ELSE files[p]]]

\* ------------------------------------------------------------------ tools
\* What a tool call does: its result, its return value, the file system
\* calls it issued and the files it leaves.
Failed(result, sys) ==
    [result |-> result, value |-> None, data |-> <<>>, sys |-> sys,
     files |-> files, dirs |-> dirs]

Returned(value, sys) ==
    [result |-> Ok, value |-> value, data |-> <<>>, sys |-> sys,
     files |-> files, dirs |-> dirs]

\* a read tool's return of the data it read
ReturnedData(data, sys) == [Returned("data", sys) EXCEPT !.data = data]

\* await write_notebook(...) followed by the tool's return statement
Written(notebook_path, nb, value, sys) ==
    LET w == write_notebook(notebook_path, nb, config.allow_root_dirs)
    IN  [result |-> w.result, value |-> IF w.result = Ok THEN value ELSE None,
         data |-> <<>>, sys |-> sys \cup w.sys, files |-> w.files, dirs |-> dirs]

\* len(source.encode("utf-8")) > self.config.max_cell_source_size
SourceTooLarge(source) == ByteLen(source) > config.max_cell_source_size

\* 0 <= cell_index < len(nb.cells)
IndexInBounds(cell_index, num_cells) == 0 <= cell_index /\ cell_index < num_cells

\* a cell left with the outputs of its former source
KeepOutputs(cell) == cell

ClearOutputs(cell) == [cell EXCEPT !.outputs = <<>>, !.execution_count = None]

\* ---- notebook_edit_cell
\* an edit that also clears the outputs of the edited cell
edit_cell_clearing_outputs(notebook_path, cell_index, source) ==
    IF SourceTooLarge(source) THEN Failed(Raise("ValueError", "source_size"), {})
    ELSE LET r == read_notebook(notebook_path, config.allow_root_dirs)
             nb == r.nb
         IN  IF r.result # Ok THEN Failed(r.result, r.sys)
             ELSE IF ~IndexInBounds(cell_index, Len(nb.cells))
             THEN Failed(Raise("IndexError", "cell_index"), r.sys)
             ELSE Written(notebook_path,
                          [nb EXCEPT !.cells[cell_index + 1] =
                              ClearOutputs([@ EXCEPT !.source = source])],
                          "edited", r.sys)

edit_cell(notebook_path, cell_index, source) ==
    IF SourceTooLarge(source) THEN Failed(Raise("ValueError", "source_size"), {})
    ELSE LET r == read_notebook(notebook_path, config.allow_root_dirs)
             nb == r.nb
         IN  IF r.result # Ok THEN Failed(r.result, r.sys)
             ELSE IF ~IndexInBounds(cell_index, Len(nb.cells))
             THEN Failed(Raise("IndexError", "cell_index"), r.sys)
             ELSE Written(notebook_path,
                          [nb EXCEPT !.cells[cell_index + 1].source = source],
                          "edited", r.sys)

\* ---- notebook_add_cell
AddCellTypesWithRaw == {"code", "markdown", "raw"}

AddCellTypes == {"code", "markdown"}

\* an insertion index that forgets the + 1
InsertionIndexBefore(insert_after_index) == insert_after_index

\* insertion_index = insert_after_index + 1
InsertionIndex(insert_after_index) == insert_after_index + 1

\* 0 <= insertion_index <= len(nb.cells)
InsertionInBounds(insertion_index, num_cells) ==
    0 <= insertion_index /\ insertion_index <= num_cells

add_cell(notebook_path, cell_type, source, insert_after_index) ==
    IF SourceTooLarge(source) THEN Failed(Raise("ValueError", "source_size"), {})
    ELSE LET r == read_notebook(notebook_path, config.allow_root_dirs)
             nb == r.nb
             id == FreshId(nb.cells)
             new_cell == IF cell_type = "code" THEN new_code_cell(id, source, {})
                         ELSE new_markdown_cell(id, source, {}, {})
             insertion_index == InsertionIndex(insert_after_index)
         IN  IF r.result # Ok THEN Failed(r.result, r.sys)
             ELSE IF cell_type \notin AddCellTypes
             THEN Failed(Raise("ValueError", "cell_type"), r.sys)
             ELSE IF ~InsertionInBounds(insertion_index, Len(nb.cells))
             THEN Failed(Raise("IndexError", "insertion_index"), r.sys)
             ELSE Written(notebook_path,
                          [nb EXCEPT !.cells = ListInsert(@, insertion_index, new_cell)],
                          "added", r.sys)

\* ---- notebook_delete_cell
\* a delete that returns without a bounds check when the index names no cell
delete_cell_ignoring_bounds(notebook_path, cell_index) ==
    LET r == read_notebook(notebook_path, config.allow_root_dirs)
        nb == r.nb
    IN  IF r.result # Ok THEN Failed(r.result, r.sys)
        ELSE IF ~IndexInBounds(cell_index, Len(nb.cells))
        THEN Returned("deleted", r.sys)
        ELSE Written(notebook_path,
                     [nb EXCEPT !.cells = ListDelete(@, cell_index)],
                     "deleted", r.sys)

delete_cell(notebook_path, cell_index) ==
    LET r == read_notebook(notebook_path, config.allow_root_dirs)
        nb == r.nb
    IN  IF r.result # Ok THEN Failed(r.result, r.sys)
        ELSE IF ~IndexInBounds(cell_index, Len(nb.cells))
        THEN Failed(Raise("IndexError", "cell_index"), r.sys)
        ELSE Written(notebook_path,
                     [nb EXCEPT !.cells = ListDelete(@, cell_index)],
                     "deleted", r.sys)

\* ---- notebook_move_cell
\* an insertion index that puts a cell moved towards the end back where it was
InsertAtOrBack(from_index, to_index) ==
    IF from_index >= to_index THEN to_index ELSE from_index

\* insert_at = to_index if from_index >= to_index else to_index - 1
InsertAt(from_index, to_index) ==
    IF from_index >= to_index THEN to_index ELSE to_index - 1

move_cell(notebook_path, from_index, to_index) ==
    LET r == read_notebook(notebook_path, config.allow_root_dirs)
        nb == r.nb
        num_cells == Len(nb.cells)
        cell_to_move == CellAt(nb, from_index)
        popped == ListDelete(nb.cells, from_index)
    IN  IF r.result # Ok THEN Failed(r.result, r.sys)
        ELSE IF ~IndexInBounds(from_index, num_cells)
        THEN Failed(Raise("IndexError", "from_index"), r.sys)
        ELSE IF ~(0 <= to_index /\ to_index <= num_cells)
        THEN Failed(Raise("IndexError", "to_index"), r.sys)
        ELSE IF from_index = to_index THEN Returned("not_moved", r.sys)
        ELSE Written(notebook_path,
                     [nb EXCEPT !.cells =
                         ListInsert(popped, InsertAt(from_index, to_index), cell_to_move)],
                     "moved", r.sys)

\* ---- notebook_split_cell
\* a range test that admits a split before the first line
SplitIndexValidFromZero(split_index, num_lines) ==
    0 <= split_index /\ split_index < num_lines

\* 0 < split_index < len(lines)
SplitIndexValid(split_index, num_lines) == 0 < split_index /\ split_index < num_lines

split_cell(notebook_path, cell_index, split_at_line) ==
    LET r == read_notebook(notebook_path, config.allow_root_dirs)
        nb == r.nb
        cell_to_split == CellAt(nb, cell_index)
        lines == splitlines(cell_to_split.source)
        split_index == split_at_line - 1
        source_part1 == Concat(SubSeq(lines, 1, split_index))
        source_part2 == Concat(SubSeq(lines, split_index + 1, Len(lines)))
        first == IF cell_to_split.cell_type = "code"
                 THEN ClearOutputs([cell_to_split EXCEPT !.source = source_part1])
                 ELSE [cell_to_split EXCEPT !.source = source_part1]
        id == FreshId(nb.cells)
        new_cell == IF cell_to_split.cell_type = "code"
                    THEN new_code_cell(id, source_part2, first.metadata)
                    ELSE IF cell_to_split.cell_type = "markdown"
                    THEN new_markdown_cell(id, source_part2, first.metadata, {})
                    ELSE new_raw_cell(id, source_part2, first.metadata, {})
    IN  IF r.result # Ok THEN Failed(r.result, r.sys)
        ELSE IF ~IndexInBounds(cell_index, Len(nb.cells))
        THEN Failed(Raise("IndexError", "cell_index"), r.sys)
        ELSE IF ~SplitIndexValid(split_index, Len(lines))
        THEN Failed(Raise("ValueError", "split_line"), r.sys)
        ELSE IF SourceTooLarge(source_part1) \/ SourceTooLarge(source_part2)
        THEN Failed(Raise("ValueError", "source_size"), r.sys)
        ELSE Written(notebook_path,
                     [nb EXCEPT !.cells =
                         ListInsert([@ EXCEPT ![cell_index + 1] = first],
                                    cell_index + 1, new_cell)],
                     "split", r.sys)

\* ---- notebook_merge_cells
\* a merge that also takes raw cells
MergeTypesWithRaw == {"code", "markdown", "raw"}

MergeTypes == {"code", "markdown"}

\* a merge that joins the two sources without a separator
MergedSourceNoSeparator(source1, source2) == source1 \o source2

\* a separator inserted only when the first source is not empty and does not
\* end in a newline
MergedSourceUnlessNewline(source1, source2) ==
    IF source1 = <<>> \/ endswith(source1, <<"\n">>)
    THEN source1 \o source2
    ELSE source1 \o <<"\n">> \o source2

\* merged_source = source1 + separator + source2
MergedSource(source1, source2) == source1 \o <<"\n">> \o source2

\* 0 <= first_cell_index < len(nb.cells) - 1
MergeIndexInBounds(first_cell_index, num_cells) ==
    0 <= first_cell_index /\ first_cell_index < num_cells - 1

\* a merge that never checks the merged size
MergedNeverTooLarge(merged_source) == FALSE

\* the size check on the merged source
MergedTooLarge(merged_source) == SourceTooLarge(merged_source)

\* a merge that stores the merged notebook before it checks the merged size
merge_cells_check_after_write(notebook_path, first_cell_index) ==
    LET r == read_notebook(notebook_path, config.allow_root_dirs)
        nb == r.nb
        cell1 == CellAt(nb, first_cell_index)
        cell2 == CellAt(nb, first_cell_index + 1)
        merged_source == MergedSource(cell1.source, cell2.source)
        merged == [cell1 EXCEPT !.source = merged_source]
        w == Written(notebook_path,
                     [nb EXCEPT !.cells =
                         ListDelete([@ EXCEPT ![first_cell_index + 1] = merged],
                                    first_cell_index + 1)],
                     "merged", r.sys)
    IN  IF r.result # Ok THEN Failed(r.result, r.sys)
        ELSE IF ~MergeIndexInBounds(first_cell_index, Len(nb.cells))
        THEN Failed(Raise("IndexError", "first_cell_index"), r.sys)
        ELSE IF cell1.cell_type # cell2.cell_type \/ cell1.cell_type \notin MergeTypes
        THEN Failed(Raise("ValueError", "cell_type"), r.sys)
        ELSE IF MergedTooLarge(merged_source)
        THEN [w EXCEPT !.result = Raise("ValueError", "source_size"), !.value = None]
        ELSE w

merge_cells(notebook_path, first_cell_index) ==
    LET r == read_notebook(notebook_path, config.allow_root_dirs)
        nb == r.nb
        cell1 == CellAt(nb, first_cell_index)
        cell2 == CellAt(nb, first_cell_index + 1)
        merged_source == MergedSource(cell1.source, cell2.source)
        merged == IF cell1.cell_type = "code"
                  THEN ClearOutputs([cell1 EXCEPT !.source = merged_source])
                  ELSE [cell1 EXCEPT !.source = merged_source]
    IN  IF r.result # Ok THEN Failed(r.result, r.sys)
        ELSE IF ~MergeIndexInBounds(first_cell_index, Len(nb.cells))
        THEN Failed(Raise("IndexError", "first_cell_index"), r.sys)
        ELSE IF cell1.cell_type # cell2.cell_type
        THEN Failed(Raise("ValueError", "cell_type"), r.sys)
        ELSE IF cell1.cell_type \notin MergeTypes
        THEN Failed(Raise("ValueError", "cell_type"), r.sys)
        ELSE IF MergedTooLarge(merged_source)
        THEN Failed(Raise("ValueError", "source_size"), r.sys)
        ELSE Written(notebook_path,
                     [nb EXCEPT !.cells =
                         ListDelete([@ EXCEPT ![first_cell_index + 1] = merged],
                                    first_cell_index + 1)],
                     "merged", r.sys)

\* ---- notebook_change_cell_type
allowed_types == {"code", "markdown", "raw"}

\* a type test that never finds the cell to be of the requested type
NeverAlreadyOfType(original_type, new_type) == FALSE

\* original_type == new_type
AlreadyOfType(original_type, new_type) == original_type = new_type

\* a change of type that rewrites the cell_type field of the stored cell
change_cell_type_in_place(notebook_path, cell_index, new_type) ==
    IF new_type \notin allowed_types THEN Failed(Raise("ValueError", "cell_type"), {})
    ELSE LET r == read_notebook(notebook_path, config.allow_root_dirs)
             nb == r.nb
         IN  IF r.result # Ok THEN Failed(r.result, r.sys)
             ELSE IF ~IndexInBounds(cell_index, Len(nb.cells))
             THEN Failed(Raise("IndexError", "cell_index"), r.sys)
             ELSE IF AlreadyOfType(CellAt(nb, cell_index).cell_type, new_type)
             THEN Returned("already_of_type", r.sys)
             ELSE Written(notebook_path,
                          [nb EXCEPT !.cells[cell_index + 1].cell_type = new_type],
                          "changed", r.sys)

change_cell_type(notebook_path, cell_index, new_type) ==
    IF new_type \notin allowed_types THEN Failed(Raise("ValueError", "cell_type"), {})
    ELSE LET r == read_notebook(notebook_path, config.allow_root_dirs)
             nb == r.nb
             original_cell == CellAt(nb, cell_index)
             id == FreshId(nb.cells)
             new_cell ==
                 IF new_type = "code"
                 THEN new_code_cell(id, original_cell.source, original_cell.metadata)
                 ELSE IF new_type = "markdown"
                 THEN new_markdown_cell(id, original_cell.source, original_cell.metadata,
                                        original_cell.attachments)
                 ELSE new_raw_cell(id, original_cell.source, original_cell.metadata,
                                   original_cell.attachments)
         IN  IF r.result # Ok THEN Failed(r.result, r.sys)
             ELSE IF ~IndexInBounds(cell_index, Len(nb.cells))
             THEN Failed(Raise("IndexError", "cell_index"), r.sys)
             ELSE IF AlreadyOfType(original_cell.cell_type, new_type)
             THEN Returned("already_of_type", r.sys)
             ELSE Written(notebook_path,
                          [nb EXCEPT !.cells[cell_index + 1] = new_cell],
                          "changed", r.sys)

\* ---- notebook_duplicate_cell
\* the cells after i copies have been inserted behind cell_index
RECURSIVE DuplicateInto(_, _, _, _)
DuplicateInto(cells, cell_index, i, count) ==
    IF i >= count THEN cells
    ELSE LET source_cell == cells[cell_index + 1]
             copy == [source_cell EXCEPT !.id = FreshId(cells)]
             new_cell == IF copy.cell_type = "code" THEN ClearOutputs(copy) ELSE copy
         IN  DuplicateInto(ListInsert(cells, cell_index + 1 + i, new_cell),
                           cell_index, i + 1, count)

duplicate_cell(notebook_path, cell_index, count) ==
    LET r == read_notebook(notebook_path, config.allow_root_dirs)
        nb == r.nb
    IN  IF r.result # Ok THEN Failed(r.result, r.sys)
        ELSE IF ~IndexInBounds(cell_index, Len(nb.cells))
        THEN Failed(Raise("IndexError", "cell_index"), r.sys)
        ELSE IF count < 1 THEN Failed(Raise("ValueError", "count"), r.sys)
        ELSE Written(notebook_path,
                     [nb EXCEPT !.cells = DuplicateInto(@, cell_index, 0, count)],
                     "duplicated", r.sys)

\* ---- notebook_read_cell
read_cell(notebook_path, cell_index) ==
    LET r == read_notebook(notebook_path, config.allow_root_dirs)
        nb == r.nb
    IN  IF r.result # Ok THEN Failed(r.result, r.sys)
        ELSE IF ~IndexInBounds(cell_index, Len(nb.cells))
        THEN Failed(Raise("IndexError", "cell_index"), r.sys)
        ELSE ReturnedData(CellAt(nb, cell_index).source, r.sys)

\* ---- notebook_read_cell_output
\* len(content.encode("utf-8")) > self.config.max_cell_output_size
OutputTooLarge(content) == ByteLen(content) > config.max_cell_output_size

\* content[:256]
Preview(content) == SubSeq(content, 1, IF Len(content) < 256 THEN Len(content) ELSE 256)

\* the strings put in the place of a content that is too large
ImageTooLarge(content) ==
    <<"<image data too large: ", ToString(ByteLen(content)), " bytes>">>

DataTooLarge(content) ==
    <<"<data too large: ", ToString(ByteLen(content)), " bytes, first 256 chars: ">>
        \o Preview(content) \o <<"...>">>

TextTooLarge(content) ==
    <<"<text data too large: ", ToString(ByteLen(content)), " bytes, first 256 chars: ">>
        \o Preview(content) \o <<"...>">>

\* the mime types that start with "image/"
ImageMimeTypes == {"image/png"}

ProcessedData(mime_type, data_content) ==
    IF ~OutputTooLarge(data_content) THEN data_content
    ELSE IF mime_type \in ImageMimeTypes THEN ImageTooLarge(data_content)
    ELSE DataTooLarge(data_content)

\* the copy of one output that is returned: the contents of a data bundle,
\* or else the text, are replaced when too large; an output with neither
\* is returned as it is
ProcessedOutput(output) ==
    IF "data" \in DOMAIN output
    THEN [output EXCEPT !.data =
             [k \in 1..Len(output.data) |->
                 <<output.data[k][1], ProcessedData(output.data[k][1], output.data[k][2])>>]]
    ELSE IF "text" \in DOMAIN output
    THEN IF OutputTooLarge(output.text)
         THEN [output EXCEPT !.text = TextTooLarge(output.text)]
         ELSE output
    ELSE output

\* a read that stores the copies it returns
read_cell_output_storing(notebook_path, cell_index) ==
    LET r == read_notebook(notebook_path, config.allow_root_dirs)
        nb == r.nb
        cell == CellAt(nb, cell_index)
        processed_outputs ==
            [k \in 1..Len(cell.outputs) |-> ProcessedOutput(cell.outputs[k])]
        w == Written(notebook_path,
                     [nb EXCEPT !.cells[cell_index + 1].outputs = processed_outputs],
                     "data", r.sys)
    IN  IF r.result # Ok THEN Failed(r.result, r.sys)
        ELSE IF ~IndexInBounds(cell_index, Len(nb.cells))
        THEN Failed(Raise("IndexError", "cell_index"), r.sys)
        ELSE IF cell.cell_type # "code"
        THEN Failed(Raise("ValueError", "not_code_cell"), r.sys)
        ELSE [w EXCEPT !.data = processed_outputs]

\* the tool of the docstring: an empty list for a cell that is not a code cell
read_cell_output_or_empty(notebook_path, cell_index) ==
    LET r == read_notebook(notebook_path, config.allow_root_dirs)
        nb == r.nb
        cell == CellAt(nb, cell_index)
    IN  IF r.result # Ok THEN Failed(r.result, r.sys)
        ELSE IF ~IndexInBounds(cell_index, Len(nb.cells))
        THEN Failed(Raise("IndexError", "cell_index"), r.sys)
        ELSE IF cell.cell_type # "code" THEN ReturnedData(<<>>, r.sys)
        ELSE ReturnedData(
                 [k \in 1..Len(cell.outputs) |-> ProcessedOutput(cell.outputs[k])],
                 r.sys)

read_cell_output(notebook_path, cell_index) ==
    LET r == read_notebook(notebook_path, config.allow_root_dirs)
        nb == r.nb
        cell == CellAt(nb, cell_index)
    IN  IF r.result # Ok THEN Failed(r.result, r.sys)
        ELSE IF ~IndexInBounds(cell_index, Len(nb.cells))
        THEN Failed(Raise("IndexError", "cell_index"), r.sys)
        ELSE IF cell.cell_type # "code"
        THEN Failed(Raise("ValueError", "not_code_cell"), r.sys)
        ELSE ReturnedData(
                 [k \in 1..Len(cell.outputs) |-> ProcessedOutput(cell.outputs[k])],
                 r.sys)

\* ---- notebook_clear_cell_outputs
\* a clearing that leaves the execution count
clear_cell_outputs_only(notebook_path, cell_index) ==
    LET r == read_notebook(notebook_path, config.allow_root_dirs)
        nb == r.nb
        cell == CellAt(nb, cell_index)
    IN  IF r.result # Ok THEN Failed(r.result, r.sys)
        ELSE IF ~IndexInBounds(cell_index, Len(nb.cells))
        THEN Failed(Raise("IndexError", "cell_index"), r.sys)
        ELSE IF cell.cell_type # "code" THEN Returned("skipped", r.sys)
        ELSE IF cell.outputs = <<>> THEN Returned("nothing_to_clear", r.sys)
        ELSE Written(notebook_path,
                     [nb EXCEPT !.cells[cell_index + 1].outputs = <<>>],
                     "cleared", r.sys)

clear_cell_outputs(notebook_path, cell_index) ==
    LET r == read_notebook(notebook_path, config.allow_root_dirs)
        nb == r.nb
        cell == CellAt(nb, cell_index)
        modified == cell.outputs # <<>> \/ ~IsNone(cell.execution_count)
    IN  IF r.result # Ok THEN Failed(r.result, r.sys)
        ELSE IF ~IndexInBounds(cell_index, Len(nb.cells))
        THEN Failed(Raise("IndexError", "cell_index"), r.sys)
        ELSE IF cell.cell_type # "code" THEN Returned("skipped", r.sys)
        ELSE IF ~modified THEN Returned("nothing_to_clear", r.sys)
        ELSE Written(notebook_path,
                     [nb EXCEPT !.cells[cell_index + 1] = ClearOutputs(cell)],
                     "cleared", r.sys)

\* ---- notebook_read_cell_metadata
read_cell_metadata(notebook_path, cell_index) ==
    LET r == read_notebook(notebook_path, config.allow_root_dirs)
        nb == r.nb
    IN  IF r.result # Ok THEN Failed(r.result, r.sys)
        ELSE IF ~IndexInBounds(cell_index, Len(nb.cells))
        THEN Failed(Raise("IndexError", "cell_index"), r.sys)
        ELSE ReturnedData(CellAt(nb, cell_index).metadata, r.sys)

\* ---- notebook_edit_cell_metadata
\* an update that assigns without deleting
ApplyUpdatesAssignOnly(metadata, metadata_updates) ==
    metadata \cup {u \in metadata_updates : u[2] # None}

\* for key, value in metadata_updates.items(): delete on None, else assign
ApplyUpdates(metadata, metadata_updates) ==
    {kv \in metadata : \A u \in metadata_updates : u[1] # kv[1]}
        \cup {u \in metadata_updates : u[2] # None}

edit_cell_metadata(notebook_path, cell_index, metadata_updates) ==
    LET r == read_notebook(notebook_path, config.allow_root_dirs)
        nb == r.nb
    IN  IF r.result # Ok THEN Failed(r.result, r.sys)
        ELSE IF ~IndexInBounds(cell_index, Len(nb.cells))
        THEN Failed(Raise("IndexError", "cell_index"), r.sys)
        ELSE Written(notebook_path,
                     [nb EXCEPT !.cells[cell_index + 1].metadata =
                         ApplyUpdates(@, metadata_updates)],
                     "updated", r.sys)

\* ---- notebook_read_metadata
read_metadata(notebook_path) ==
    LET r == read_notebook(notebook_path, config.allow_root_dirs)
    IN  IF r.result # Ok THEN Failed(r.result, r.sys)
        ELSE ReturnedData(r.nb.metadata, r.sys)

\* ---- notebook_edit_metadata
edit_metadata(notebook_path, metadata_updates) ==
    LET r == read_notebook(notebook_path, config.allow_root_dirs)
        nb == r.nb
    IN  IF r.result # Ok THEN Failed(r.result, r.sys)
        ELSE Written(notebook_path,
                     [nb EXCEPT !.metadata = ApplyUpdates(@, metadata_updates)],
                     "updated", r.sys)

\* ---- notebook_get_cell_count
get_cell_count(notebook_path) ==
    LET r == read_notebook(notebook_path, config.allow_root_dirs)
    IN  IF r.result # Ok THEN Failed(r.result, r.sys)
        ELSE ReturnedData(Len(r.nb.cells), r.sys)

\* ---- notebook_create
\* a create that does not look for an existing file or directory
create_overwriting(notebook_path) ==
    IF ~isabs(notebook_path) THEN Failed(Raise("ValueError", "not_absolute"), {})
    ELSE IF ~is_path_allowed(notebook_path, config.allow_root_dirs)
    THEN Failed(Raise("PermissionError", "access_denied"), {})
    ELSE LET resolved_path == realpath(notebook_path)
         IN  IF ~endswith(resolved_path, IpynbExt)
             THEN Failed(Raise("ValueError", "file_type"), {})
             ELSE Written(notebook_path, new_notebook, "created", {})

create(notebook_path) ==
    IF ~isabs(notebook_path) THEN Failed(Raise("ValueError", "not_absolute"), {})
    ELSE IF ~is_path_allowed(notebook_path, config.allow_root_dirs)
    THEN Failed(Raise("PermissionError", "access_denied"), {})
    ELSE LET resolved_path == realpath(notebook_path)
         IN  IF ~endswith(resolved_path, IpynbExt)
             THEN Failed(Raise("ValueError", "file_type"), {})
             ELSE IF exists(resolved_path)
             THEN Failed(Raise("FileExistsError", "exists"), {})
             ELSE Written(notebook_path, new_notebook, "created", {})

\* ---- notebook_delete
\* a delete that reports success for a path that holds no file
delete_missing_ok(notebook_path) ==
    IF ~isabs(notebook_path) THEN Failed(Raise("ValueError", "not_absolute"), {})
    ELSE IF ~is_path_allowed(notebook_path, config.allow_root_dirs)
    THEN Failed(Raise("PermissionError", "access_denied"), {})
    ELSE IF ~endswith(notebook_path, IpynbExt)
    THEN Failed(Raise("ValueError", "file_type"), {})
    ELSE LET resolved_path == realpath(notebook_path)
         IN  [result |-> Ok, value |-> "deleted", data |-> <<>>,
              sys |-> {Sys("remove", resolved_path)},
              files |-> [p \in DOMAIN files \ {resolved_path} |-> files[p]],
              dirs |-> dirs]

delete(notebook_path) ==
    IF ~isabs(notebook_path) THEN Failed(Raise("ValueError", "not_absolute"), {})
    ELSE IF ~is_path_allowed(notebook_path, config.allow_root_dirs)
    THEN Failed(Raise("PermissionError", "access_denied"), {})
    ELSE IF ~endswith(notebook_path, IpynbExt)
    THEN Failed(Raise("ValueError", "file_type"), {})
    ELSE LET resolved_path == realpath(notebook_path)
         IN  IF ~isfile(resolved_path)
             THEN Failed(Raise("FileNotFoundError", "not_found"), {})
             ELSE [result |-> Ok, value |-> "deleted", data |-> <<>>,
                   sys |-> {Sys("remove", resolved_path)},
                   files |-> [p \in DOMAIN files \ {resolved_path} |-> files[p]],
                   dirs |-> dirs]

\* ---- notebook_rename
rename(old_path, new_path) ==
    IF ~isabs(old_path) \/ ~isabs(new_path)
    THEN Failed(Raise("ValueError", "not_absolute"), {})
    ELSE IF \/ ~is_path_allowed(old_path, config.allow_root_dirs)
            \/ ~is_path_allowed(new_path, config.allow_root_dirs)
    THEN Failed(Raise("PermissionError", "access_denied"), {})
    ELSE IF ~endswith(old_path, IpynbExt) \/ ~endswith(new_path, IpynbExt)
    THEN Failed(Raise("ValueError", "file_type"), {})
    ELSE LET resolved_old_path == realpath(old_path)
             resolved_new_path == realpath(new_path)
             parent == dirname(resolved_new_path)
         IN  IF ~isfile(resolved_old_path)
             THEN Failed(Raise("FileNotFoundError", "not_found"), {})
             ELSE IF exists(resolved_new_path)
             THEN Failed(Raise("FileExistsError", "exists"), {})
             ELSE IF makedirs(parent) \cap DOMAIN files # {}
             THEN Failed(Raise("IOError", "os_error"), {Sys("makedirs", parent)})
             ELSE [result |-> Ok, value |-> "renamed", data |-> <<>>,
                   sys |-> {Sys("makedirs", parent),
                            Sys("rename_from", resolved_old_path),
                            Sys("rename_to", resolved_new_path)},
                   files |-> [p \in (DOMAIN files \ {resolved_old_path})
                                      \cup {resolved_new_path} |->
                                 IF p = resolved_new_path THEN files[resolved_old_path]
                                 ELSE files[p]],
                   dirs |-> makedirs(parent)]

\* ------------------------------------------------------------------ the host
Ipynb(stem) == stem \o IpynbExt

NbA == Ipynb(<<"/", "r", "/", "a">>)
NbB == Ipynb(<<"/", "r", "/", "b">>)
OutsideNb == Ipynb(<<"/", "s", "/", "a">>)
SiblingNb == Ipynb(<<"/", "r", "2", "/", "a">>)

WorkspaceRoot == <<"/", "r">>

Output(text) == [output_type |-> "stream", name |-> "stdout", text |-> text]

DisplayData(data) == [output_type |-> "display_data", data |-> data, metadata |-> {}]

Error(evalue, traceback) ==
    [output_type |-> "error", ename |-> "ValueError", evalue |-> evalue,
     traceback |-> traceback]

CodeCell(id, source, outputs, execution_count, metadata) ==
    [new_code_cell(id, source, metadata) EXCEPT
        !.outputs = outputs, !.execution_count = execution_count]

\* notebooks as Jupyter leaves them on disk
ExecutedCell == CodeCell(1, <<"a", "\n", "a">>, <<Output(<<"a">>)>>, 1, {<<"k1", "v1">>})
NoteCell == new_markdown_cell(2, <<"a">>, {}, {"image.png"})
PlainCell == CodeCell(3, <<"a">>, <<>>, None, {})
HugeCell == CodeCell(1, <<Blob>>, <<>>, None, {})

SmallNotebooks ==
    { [cells |-> <<>>, metadata |-> {}],
      [cells |-> <<ExecutedCell, NoteCell>>, metadata |-> {<<"kernel", "python3">>}],
      [cells |-> <<PlainCell, ExecutedCell>>, metadata |-> {}] }

HugeNotebooks ==
    { [cells |-> <<HugeCell, PlainCell>>, metadata |-> {}] }

SecretNotebook == [cells |-> <<PlainCell>>, metadata |-> {<<"secret", "yes">>}]

InitDirs == {PathOf(<<>>), <<"/", "r">>, <<"/", "s">>, <<"/", "r", "2">>}

SmallConfig(roots) ==
    [allow_root_dirs |-> roots, max_cell_source_size |-> SmallCellSourceSize,
     max_cell_output_size |-> SmallCellSourceSize]

DefaultConfig(roots) ==
    [allow_root_dirs |-> roots, max_cell_source_size |-> DefaultMaxCellSourceSize,
     max_cell_output_size |-> DefaultMaxCellSourceSize]

\* ------------------------------------------------------------------ invocations
\* no invocation in flight, and the kernel cache of a new CellToolsProvider
NoSessions ==
    /\ tasks = <<>>
    /\ kernel_cache = <<>>
    /\ kernel_starts = {}

NoArgs ==
    [path |-> <<>>, new_path |-> <<>>, index |-> None, to_index |-> None,
     line |-> None, count |-> None, source |-> <<>>, cell_type |-> None,
     updates |-> {}]

NoCall ==
    [op |-> "none", result |-> Ok, value |-> None, data |-> <<>>, sys |-> {}] @@ NoArgs

Invoke(op, args, out) ==
    /\ steps < MaxSteps
    /\ \A p \in DOMAIN out.files : Len(out.files[p].cells) <= MaxCells
    /\ files' = out.files
    /\ dirs' = out.dirs
    /\ call' = [op |-> op, result |-> out.result, value |-> out.value,
                data |-> out.data, sys |-> out.sys] @@ args @@ NoArgs
    /\ steps' = steps + 1
    /\ UNCHANGED <<config, tasks, kernel_cache, kernel_starts>>

notebook_edit_cell(notebook_path, cell_index, source) ==
    Invoke("notebook_edit_cell",
           [path |-> notebook_path, index |-> cell_index, source |-> source],
           edit_cell(notebook_path, cell_index, source))

notebook_add_cell(notebook_path, cell_type, source, insert_after_index) ==
    Invoke("notebook_add_cell",
           [path |-> notebook_path, cell_type |-> cell_type, source |-> source,
            index |-> insert_after_index],
           add_cell(notebook_path, cell_type, source, insert_after_index))

notebook_delete_cell(notebook_path, cell_index) ==
    Invoke("notebook_delete_cell", [path |-> notebook_path, index |-> cell_index],
           delete_cell(notebook_path, cell_index))

notebook_move_cell(notebook_path, from_index, to_index) ==
    Invoke("notebook_move_cell",
           [path |-> notebook_path, index |-> from_index, to_index |-> to_index],
           move_cell(notebook_path, from_index, to_index))

notebook_split_cell(notebook_path, cell_index, split_at_line) ==
    Invoke("notebook_split_cell",
           [path |-> notebook_path, index |-> cell_index, line |-> split_at_line],
           split_cell(notebook_path, cell_index, split_at_line))

notebook_merge_cells(notebook_path, first_cell_index) ==
    Invoke("notebook_merge_cells", [path |-> notebook_path, index |-> first_cell_index],
           merge_cells(notebook_path, first_cell_index))

notebook_change_cell_type(notebook_path, cell_index, new_type) ==
    Invoke("notebook_change_cell_type",
           [path |-> notebook_path, index |-> cell_index, cell_type |-> new_type],
           change_cell_type(notebook_path, cell_index, new_type))

notebook_duplicate_cell(notebook_path, cell_index, count) ==
    Invoke("notebook_duplicate_cell",
           [path |-> notebook_path, index |-> cell_index, count |-> count],
           duplicate_cell(notebook_path, cell_index, count))

notebook_read_cell(notebook_path, cell_index) ==
    Invoke("notebook_read_cell", [path |-> notebook_path, index |-> cell_index],
           read_cell(notebook_path, cell_index))

notebook_read_cell_output(notebook_path, cell_index) ==
    Invoke("notebook_read_cell_output", [path |-> notebook_path, index |-> cell_index],
           read_cell_output(notebook_path, cell_index))

notebook_clear_cell_outputs(notebook_path, cell_index) ==
    Invoke("notebook_clear_cell_outputs", [path |-> notebook_path, index |-> cell_index],
           clear_cell_outputs(notebook_path, cell_index))

notebook_read_cell_metadata(notebook_path, cell_index) ==
    Invoke("notebook_read_cell_metadata", [path |-> notebook_path, index |-> cell_index],
           read_cell_metadata(notebook_path, cell_index))

notebook_edit_cell_metadata(notebook_path, cell_index, metadata_updates) ==
    Invoke("notebook_edit_cell_metadata",
           [path |-> notebook_path, index |-> cell_index, updates |-> metadata_updates],
           edit_cell_metadata(notebook_path, cell_index, metadata_updates))

notebook_read_metadata(notebook_path) ==
    Invoke("notebook_read_metadata", [path |-> notebook_path], read_metadata(notebook_path))

notebook_edit_metadata(notebook_path, metadata_updates) ==
    Invoke("notebook_edit_metadata",
           [path |-> notebook_path, updates |-> metadata_updates],
           edit_metadata(notebook_path, metadata_updates))

notebook_get_cell_count(notebook_path) ==
    Invoke("notebook_get_cell_count", [path |-> notebook_path],
           get_cell_count(notebook_path))

notebook_create(notebook_path) ==
    Invoke("notebook_create", [path |-> notebook_path], create(notebook_path))

notebook_delete(notebook_path) ==
    Invoke("notebook_delete", [path |-> notebook_path], delete(notebook_path))

notebook_rename(old_path, new_path) ==
    Invoke("notebook_rename", [path |-> old_path, new_path |-> new_path],
           rename(old_path, new_path))

\* ------------------------------------------------------------------ cell editing
\* Spec: the cell editing tools applied to the notebook /r/a.ipynb of a
\* workspace /r whose cell sources are limited to SmallCellSourceSize bytes.
\* Indices run over the positions of the largest notebook, so they fall
\* outside the smaller ones; negative indices are the subject of SpecBounds.
IndexInputs == 0..(MaxCells - 1)
InsertAfterInputs == -1..(MaxCells - 1)
LineInputs == 0..2
CountInputs == 0..2

SourceInputs ==
    { <<>>, <<TwoByteChar>>, <<"a", "\n", "a">>, <<TwoByteChar, TwoByteChar>> }

NewCellInputs ==
    { <<"code", <<"a">>>>, <<"markdown", <<"a", "\n", "a">>>>, <<"raw", <<"a">>>>,
      <<"code", <<TwoByteChar, TwoByteChar>>>> }

TypeInputs == {"code", "markdown", "raw", "bogus"}

Init ==
    /\ config = SmallConfig(<<WorkspaceRoot>>)
    /\ \E nb \in SmallNotebooks : files = (NbA :> nb) @@ (OutsideNb :> SecretNotebook)
    /\ dirs = InitDirs
    /\ call = NoCall
    /\ steps = 0
    /\ NoSessions

EditCell == \E i \in IndexInputs, s \in SourceInputs : notebook_edit_cell(NbA, i, s)

AddCell ==
    \E c \in NewCellInputs, i \in InsertAfterInputs : notebook_add_cell(NbA, c[1], c[2], i)

DeleteCell == \E i \in IndexInputs : notebook_delete_cell(NbA, i)

MoveCell == \E i \in IndexInputs, j \in IndexInputs : notebook_move_cell(NbA, i, j)

SplitCell == \E i \in IndexInputs, k \in LineInputs : notebook_split_cell(NbA, i, k)

MergeCells == \E i \in IndexInputs : notebook_merge_cells(NbA, i)

ChangeCellType ==
    \E i \in IndexInputs, t \in TypeInputs : notebook_change_cell_type(NbA, i, t)

DuplicateCell ==
    \E i \in IndexInputs, n \in CountInputs : notebook_duplicate_cell(NbA, i, n)

Next ==
    \/ EditCell
    \/ AddCell
    \/ DeleteCell
    \/ MoveCell
    \/ SplitCell
    \/ MergeCells
    \/ ChangeCellType
    \/ DuplicateCell

Spec == Init /\ [][Next]_vars

\* ------------------------------------------------------------------ properties of Spec
Cells(fs) == fs[NbA].cells

CellEditOps ==
    {"notebook_edit_cell", "notebook_add_cell", "notebook_delete_cell",
     "notebook_move_cell", "notebook_split_cell", "notebook_merge_cells",
     "notebook_change_cell_type", "notebook_duplicate_cell"}

BoundsError(result) == result.exc = "IndexError"
SizeError(result) == result = Raise("ValueError", "source_size")
TypeError(result) == result = Raise("ValueError", "cell_type")

\* C4: when a mutating cell operation returns a BoundsError, SizeError or
\* TypeError, the files are what they were before the call and the call has
\* opened no file for writing.
C4_RejectedCallLeavesFile ==
    [][(/\ call'.op \in CellEditOps
        /\ BoundsError(call'.result) \/ SizeError(call'.result) \/ TypeError(call'.result))
       => (/\ files' = files
           /\ \A c \in call'.sys : c.sys # "open_w")]_vars

\* a merge rejected for the size of the merged source
C4_Witness ==
    /\ call.op = "notebook_merge_cells"
    /\ SizeError(call.result)

\* C7: every cell source of every stored notebook has at most
\* max_cell_source_size bytes.
C7_SourcesWithinLimit ==
    \A p \in DOMAIN files : \A i \in 1..Len(files[p].cells) :
        ByteLen(files[p].cells[i].source) <= config.max_cell_source_size

\* a successful merge whose result is exactly at the limit
C7_Witness ==
    /\ call.op = "notebook_merge_cells"
    /\ call.result = Ok
    /\ \E i \in 1..Len(Cells(files)) :
           /\ i = call.index + 1
           /\ ByteLen(Cells(files)[i].source) = config.max_cell_source_size

\* C8: a successful add_cell puts one new cell of the given type and source
\* at index insert_after + 1, keeps the cells before it, shifts the cells from
\* that index on up by one and yields N + 1 cells.
C8_AddCellInserts ==
    [][(call'.op = "notebook_add_cell" /\ call'.result = Ok)
       => LET old == Cells(files)
              new == Cells(files')
              at == call'.index + 1
          IN  /\ Len(new) = Len(old) + 1
              /\ at \in 0..Len(old)
              /\ new[at + 1].cell_type = call'.cell_type
              /\ new[at + 1].source = call'.source
              /\ \A j \in 1..Len(old) :
                     IF j <= at THEN new[j] = old[j] ELSE new[j + 1] = old[j]]_vars

\* a cell added in the middle of a notebook
C8_Witness ==
    /\ call.op = "notebook_add_cell"
    /\ call.result = Ok
    /\ call.index >= 0
    /\ Len(Cells(files)) > call.index + 2

HasRaw(fs) ==
    \E p \in DOMAIN fs : \E i \in 1..Len(fs[p].cells) : fs[p].cells[i].cell_type = "raw"

\* C9: add_cell with a type other than code and markdown fails and leaves
\* the files as they were, and a Raw cell first appears only through a
\* successful change_cell_type to raw.
C9_RawOnlyByRetype ==
    [][/\ (call'.op = "notebook_add_cell" /\ call'.cell_type \notin {"code", "markdown"})
          => (call'.result # Ok /\ files' = files)
       /\ (~HasRaw(files) /\ HasRaw(files'))
          => (/\ call'.op = "notebook_change_cell_type"
              /\ call'.cell_type = "raw"
              /\ call'.result = Ok)]_vars

\* add_cell of a raw cell rejected in a notebook that has a Raw cell
C9_Witness ==
    /\ call.op = "notebook_add_cell"
    /\ call.cell_type = "raw"
    /\ call.result = Raise("ValueError", "cell_type")
    /\ HasRaw(files)

\* C10: a successful delete_cell(i) removes exactly cell i: the cells before
\* i stay, the cells after i move down by one, and N - 1 cells remain.
C10_DeleteCellRemoves ==
    [][(call'.op = "notebook_delete_cell" /\ call'.result = Ok)
       => LET old == Cells(files)
              new == Cells(files')
              i == call'.index
          IN  /\ Len(new) = Len(old) - 1
              /\ \A j \in 1..Len(new) :
                     new[j] = IF j <= i THEN old[j] ELSE old[j + 1]]_vars

\* the last remaining cell deleted, leaving an empty notebook
C10_Witness ==
    /\ call.op = "notebook_delete_cell"
    /\ call.result = Ok
    /\ Cells(files) = <<>>

\* ------------------------------------------------------------------ authorization
\* SpecAuth: is_path_allowed applied to paths of at most MaxPathDepth
\* components, absolute and relative, under each list of roots.
MaxPathDepth == 3

PathComponents ==
    { <<"r">>, <<"r", "2">>, <<"s">>, <<"l">>, <<"r", "l">>, pardir,
      <<"a", ".", "i", "p", "y", "n", "b">> }

ComponentLists == UNION {[1..n -> PathComponents] : n \in 1..MaxPathDepth}

AuthPathInputs ==
    {sep} \cup {JoinComps(cs) : cs \in ComponentLists}
          \cup {Tail(JoinComps(cs)) : cs \in ComponentLists}

AuthRootInputs ==
    { <<>>, <<WorkspaceRoot>>, <<sep>>, <<<<"/", "r", "l">>>>,
      <<<<"/", "r", "/", "l">>>>, <<<<"/", "r", "2">>, <<"/", "s">>>> }

InitAuth ==
    /\ \E roots \in AuthRootInputs : config = SmallConfig(roots)
    /\ \E p \in AuthPathInputs : call = [NoCall EXCEPT !.path = p]
    /\ files = (NbA :> new_notebook)
    /\ dirs = InitDirs
    /\ steps = 0
    /\ NoSessions

IsPathAllowed ==
    /\ call.op = "none"
    /\ call' = [call EXCEPT
           !.op = "is_path_allowed",
           !.value = IF is_path_allowed(call.path, config.allow_root_dirs)
                     THEN "True" ELSE "False"]
    /\ steps' = steps + 1
    /\ UNCHANGED <<config, files, dirs, tasks, kernel_cache, kernel_starts>>

NextAuth == IsPathAllowed

SpecAuth == InitAuth /\ [][NextAuth]_vars

\* the components of the canonical form of a path
Canonical(p) == joinrealpath(IF isabs(p) THEN <<>> ELSE cwd, Split(p))

\* the canonical path equals the canonical root or lies below it
InsideRoot(p, root) ==
    LET pc == Canonical(p)
        rc == Canonical(root)
    IN  /\ Len(rc) <= Len(pc)
        /\ SubSeq(pc, 1, Len(rc)) = rc

\* C2: is_path_allowed returns true exactly when the canonical path equals
\* a canonical root or lies inside one; in particular never with an empty
\* list of roots, for a sibling whose name extends the root's, or for a path
\* that leaves the root through "..".
C2_AllowedIffInsideRoot ==
    call.op = "is_path_allowed"
        => (call.value = "True"
              <=> \E i \in 1..Len(config.allow_root_dirs) :
                      InsideRoot(call.path, config.allow_root_dirs[i]))

\* ------------------------------------------------------------------ path arguments
\* SpecFs: every tool called with paths inside the workspace, outside it,
\* through "..", through a link and relative to the working directory.
DotDotNb == Ipynb(<<"/", "r", "/", ".", ".", "/", "s", "/", "a">>)
LinkNb == Ipynb(<<"/", "r", "/", "l", "/", "a">>)
RelativeNb == Ipynb(<<"a">>)
NestedNb == Ipynb(<<"/", "r", "/", "d", "/", "b">>)
OutsideNewNb == Ipynb(<<"/", "s", "/", "b">>)

FsPathInputs == {NbA, OutsideNb, SiblingNb, DotDotNb, LinkNb, RelativeNb}
FsNewPathInputs == {NbB, NestedNb, OutsideNewNb}
FsRootInputs == { <<WorkspaceRoot>>, <<<<"/", "r", "l">>>> }

OversizeSource == <<TwoByteChar, TwoByteChar>>
FsSourceInputs == { <<"a">>, OversizeSource }
FsTypeInputs == {"markdown", "bogus"}

InitFs ==
    /\ \E roots \in FsRootInputs : config = SmallConfig(roots)
    /\ files = (NbA :> [cells |-> <<ExecutedCell, NoteCell>>, metadata |-> {}])
                 @@ (OutsideNb :> SecretNotebook) @@ (SiblingNb :> SecretNotebook)
    /\ dirs = InitDirs
    /\ call = NoCall
    /\ steps = 0
    /\ NoSessions

FsEditCell ==
    \E p \in FsPathInputs, s \in FsSourceInputs : notebook_edit_cell(p, 0, s)

FsAddCell ==
    \E p \in FsPathInputs, s \in FsSourceInputs : notebook_add_cell(p, "code", s, -1)

FsDeleteCell == \E p \in FsPathInputs : notebook_delete_cell(p, 0)

FsMoveCell == \E p \in FsPathInputs : notebook_move_cell(p, 0, 1)

FsSplitCell == \E p \in FsPathInputs : notebook_split_cell(p, 0, 1)

FsMergeCells == \E p \in FsPathInputs : notebook_merge_cells(p, 0)

FsChangeCellType ==
    \E p \in FsPathInputs, t \in FsTypeInputs : notebook_change_cell_type(p, 0, t)

FsDuplicateCell == \E p \in FsPathInputs : notebook_duplicate_cell(p, 0, 1)

FsReadCell == \E p \in FsPathInputs : notebook_read_cell(p, 0)

FsReadCellOutput == \E p \in FsPathInputs : notebook_read_cell_output(p, 0)

FsClearCellOutputs == \E p \in FsPathInputs : notebook_clear_cell_outputs(p, 0)

FsReadCellMetadata == \E p \in FsPathInputs : notebook_read_cell_metadata(p, 0)

FsEditCellMetadata ==
    \E p \in FsPathInputs : notebook_edit_cell_metadata(p, 0, {<<"k1", "v2">>})

FsCreate == \E p \in FsPathInputs \cup FsNewPathInputs : notebook_create(p)

FsDelete == \E p \in FsPathInputs : notebook_delete(p)

FsRename ==
    \E p \in {NbA, OutsideNb, RelativeNb}, q \in FsNewPathInputs :
        notebook_rename(p, q)

NextFs ==
    \/ FsEditCell
    \/ FsAddCell
    \/ FsDeleteCell
    \/ FsMoveCell
    \/ FsSplitCell
    \/ FsMergeCells
    \/ FsChangeCellType
    \/ FsDuplicateCell
    \/ FsReadCell
    \/ FsReadCellOutput
    \/ FsClearCellOutputs
    \/ FsReadCellMetadata
    \/ FsEditCellMetadata
    \/ FsCreate
    \/ FsDelete
    \/ FsRename

SpecFs == InitFs /\ [][NextFs]_vars

\* ------------------------------------------------------------------ properties of SpecFs
InsideAllowedRoot(p) ==
    \E i \in 1..Len(config.allow_root_dirs) : InsideRoot(p, config.allow_root_dirs[i])

FileAt(fs, p) == IF p \in DOMAIN fs THEN <<fs[p]>> ELSE <<>>

\* C1: every path a tool call hands to the file system (open for reading or
\* writing, remove, rename source and destination, makedirs) and every file
\* or directory that differs after the call has a canonical path that equals
\* an allowed root or lies inside one.
C1_TouchedPathsInsideRoots ==
    [][/\ \A c \in call'.sys : InsideAllowedRoot(c.path)
       /\ \A p \in DOMAIN files \cup DOMAIN files' :
              FileAt(files, p) # FileAt(files', p) => InsideAllowedRoot(p)
       /\ \A p \in dirs' \ dirs : InsideAllowedRoot(p)]_vars

\* a notebook renamed into a directory the call had to create, after an
\* earlier call
C1_Witness ==
    /\ call.op = "notebook_rename"
    /\ call.result = Ok
    /\ steps = 2
    /\ Sys("rename_to", NestedNb) \in call.sys
    /\ NestedNb \in DOMAIN files

PathError(result) ==
    result \in { Raise("ValueError", "not_absolute"),
                 Raise("PermissionError", "access_denied"),
                 Raise("ValueError", "file_type") }

\* C3: a tool called with a path that is not absolute fails with a path
\* error, hands no path to the file system and leaves files and directories
\* as they were.
C3_RelativePathIsPathError ==
    [][(~isabs(call'.path) \/ (call'.op = "notebook_rename" /\ ~isabs(call'.new_path)))
       => (/\ PathError(call'.result)
           /\ call'.sys = {}
           /\ files' = files
           /\ dirs' = dirs)]_vars

\* ------------------------------------------------------------------ indices
\* SpecBounds: every index-taking tool applied to /r/a.ipynb with indices
\* from below zero to beyond the last cell, alone and together with another
\* argument that is invalid.
BoundsSourceInputs == { <<"a">>, OversizeSource }
BoundsNewCellInputs ==
    { <<"code", <<"a">>>>, <<"raw", <<"a">>>>, <<"markdown", OversizeSource>> }
BoundsTypeInputs == {"markdown", "bogus"}
BoundsIndexInputs == -1..MaxCells
BoundsInsertAfterInputs == -2..MaxCells

InitBounds == Init

BoundsEditCell ==
    \E i \in BoundsIndexInputs, s \in BoundsSourceInputs : notebook_edit_cell(NbA, i, s)

BoundsAddCell ==
    \E c \in BoundsNewCellInputs, i \in BoundsInsertAfterInputs :
        notebook_add_cell(NbA, c[1], c[2], i)

BoundsDeleteCell == \E i \in BoundsIndexInputs : notebook_delete_cell(NbA, i)

BoundsMoveCell == \E i \in BoundsIndexInputs, j \in BoundsIndexInputs : notebook_move_cell(NbA, i, j)

BoundsSplitCell == \E i \in BoundsIndexInputs : notebook_split_cell(NbA, i, 1)

BoundsMergeCells == \E i \in BoundsIndexInputs : notebook_merge_cells(NbA, i)

BoundsChangeCellType ==
    \E i \in BoundsIndexInputs, t \in BoundsTypeInputs : notebook_change_cell_type(NbA, i, t)

BoundsDuplicateCell == \E i \in BoundsIndexInputs : notebook_duplicate_cell(NbA, i, 1)

BoundsReadCell == \E i \in BoundsIndexInputs : notebook_read_cell(NbA, i)

BoundsReadCellOutput == \E i \in BoundsIndexInputs : notebook_read_cell_output(NbA, i)

BoundsClearCellOutputs == \E i \in BoundsIndexInputs : notebook_clear_cell_outputs(NbA, i)

BoundsReadCellMetadata == \E i \in BoundsIndexInputs : notebook_read_cell_metadata(NbA, i)

BoundsEditCellMetadata ==
    \E i \in BoundsIndexInputs : notebook_edit_cell_metadata(NbA, i, {<<"k1", "v2">>})

NextBounds ==
    \/ BoundsEditCell
    \/ BoundsAddCell
    \/ BoundsDeleteCell
    \/ BoundsMoveCell
    \/ BoundsSplitCell
    \/ BoundsMergeCells
    \/ BoundsChangeCellType
    \/ BoundsDuplicateCell
    \/ BoundsReadCell
    \/ BoundsReadCellOutput
    \/ BoundsClearCellOutputs
    \/ BoundsReadCellMetadata
    \/ BoundsEditCellMetadata

SpecBounds == InitBounds /\ [][NextBounds]_vars

\* ------------------------------------------------------------------ properties of SpecBounds
\* the tools whose index must name an existing cell
CellIndexOps ==
    {"notebook_read_cell", "notebook_edit_cell", "notebook_delete_cell",
     "notebook_split_cell", "notebook_change_cell_type", "notebook_duplicate_cell",
     "notebook_read_cell_output", "notebook_clear_cell_outputs",
     "notebook_read_cell_metadata", "notebook_edit_cell_metadata",
     "notebook_move_cell"}

\* the call c carries an index outside the range its tool accepts for a
\* notebook of N cells
IndexOutOfRange(c, N) ==
    \/ c.op \in CellIndexOps /\ (c.index < 0 \/ c.index >= N)
    \/ c.op = "notebook_move_cell" /\ (c.to_index < 0 \/ c.to_index > N)
    \/ c.op = "notebook_add_cell" /\ (c.index < -1 \/ c.index > N - 1)
    \/ c.op = "notebook_merge_cells" /\ (c.index < 0 \/ c.index >= N - 1)

\* the call c carries another invalid argument that its tool tests before
\* the index
OtherArgumentRejected(c) ==
    \/ /\ c.op \in {"notebook_edit_cell", "notebook_add_cell"}
       /\ ByteLen(c.source) > config.max_cell_source_size
    \/ c.op = "notebook_add_cell" /\ c.cell_type \notin {"code", "markdown"}
    \/ c.op = "notebook_change_cell_type" /\ c.cell_type \notin {"code", "markdown", "raw"}

\* C5 as stated: a call with an index out of range returns a BoundsError.
C5_OutOfRangeIsBoundsError ==
    [][IndexOutOfRange(call', Len(Cells(files))) => BoundsError(call'.result)]_vars

\* C5: a call with an index out of range fails and leaves the files as they
\* were; the error is a BoundsError unless the call also carries an oversized
\* source (edit_cell, add_cell: SizeError) or an invalid cell type (add_cell,
\* change_cell_type: TypeError), which those tools test first.
C5_OutOfRangeRejected ==
    [][IndexOutOfRange(call', Len(Cells(files)))
       => (/\ call'.result # Ok
           /\ files' = files
           /\ IF OtherArgumentRejected(call')
              THEN SizeError(call'.result) \/ TypeError(call'.result)
              ELSE BoundsError(call'.result))]_vars

\* an index equal to the number of cells, rejected by the second call on a
\* notebook that has cells
C5_Witness ==
    /\ call.op \in CellIndexOps \ {"notebook_move_cell"}
    /\ call.index = Len(Cells(files))
    /\ call.index > 0
    /\ BoundsError(call.result)
    /\ steps = 2

\* ------------------------------------------------------------------ source sizes
\* SpecSize: edit_cell and add_cell under a small limit and under the
\* default limits, with sources below, at and above max_cell_source_size.
ExactSmallSource == <<TwoByteChar, "a">>
ExactDefaultSource == <<Blob, "a">>
OversizeDefaultSource == <<Blob, TwoByteChar>>

SizeSourceInputs ==
    { <<>>, <<"a">>, <<"a", "\n", "a">>, ExactSmallSource, OversizeSource,
      ExactDefaultSource, OversizeDefaultSource }

SizeIndexInputs == {0, MaxCells}

InitSize ==
    /\ config \in {SmallConfig(<<WorkspaceRoot>>), DefaultConfig(<<WorkspaceRoot>>)}
    /\ \E nb \in SmallNotebooks : files = (NbA :> nb) @@ (OutsideNb :> SecretNotebook)
    /\ dirs = InitDirs
    /\ call = NoCall
    /\ steps = 0
    /\ NoSessions

SizeEditCell ==
    \E i \in SizeIndexInputs, s \in SizeSourceInputs : notebook_edit_cell(NbA, i, s)

SizeAddCell ==
    \E t \in {"code", "markdown"}, s \in SizeSourceInputs, i \in {-1, MaxCells} :
        notebook_add_cell(NbA, t, s, i)

NextSize ==
    \/ SizeEditCell
    \/ SizeAddCell

SpecSize == InitSize /\ [][NextSize]_vars

\* ------------------------------------------------------------------ properties of SpecSize
\* C6: edit_cell and add_cell reject a source of more than
\* max_cell_source_size bytes with a SizeError and leave the files as they
\* were, and a call with a source of exactly max_cell_source_size bytes whose
\* other arguments are valid succeeds.
C6_SourceLimitInclusive ==
    [][call'.op \in {"notebook_edit_cell", "notebook_add_cell"}
       => /\ ByteLen(call'.source) > config.max_cell_source_size
              => (SizeError(call'.result) /\ files' = files)
          /\ (/\ ByteLen(call'.source) = config.max_cell_source_size
              /\ ~IndexOutOfRange(call', Len(Cells(files))))
              => call'.result = Ok]_vars

\* the files other than /r/a.ipynb and the notebook's own metadata are as
\* they were
OnlyCellsChange ==
    /\ DOMAIN files' = DOMAIN files
    /\ \A p \in DOMAIN files \ {NbA} : files'[p] = files[p]
    /\ files'[NbA].metadata = files[NbA].metadata

\* C11: a successful edit_cell(i, text) stores text verbatim as the source
\* of cell i and changes nothing else: the cell's type, metadata, outputs and
\* execution_count, the number of cells and every other cell stay.
C11_EditChangesOnlySource ==
    [][(call'.op = "notebook_edit_cell" /\ call'.result = Ok)
       => LET old == Cells(files)
              new == Cells(files')
              i == call'.index + 1
          IN  /\ OnlyCellsChange
              /\ Len(new) = Len(old)
              /\ i \in 1..Len(old)
              /\ new[i] = [old[i] EXCEPT !.source = call'.source]
              /\ \A j \in 1..Len(old) : j # i => new[j] = old[j]]_vars

\* the source of an executed code cell that carries outputs and metadata
\* replaced by a different one
C11_Witness ==
    /\ call.op = "notebook_edit_cell"
    /\ call.result = Ok
    /\ LET cell == Cells(files)[call.index + 1]
       IN  /\ cell.source = call.source
           /\ cell.source = <<TwoByteChar>>
           /\ cell.outputs # <<>>
           /\ cell.execution_count = 1
           /\ cell.metadata # {}

C13_AdjacentMoveIsNoOp ==
    [][(/\ call'.op = "notebook_move_cell"
        /\ call'.result = Ok
        /\ call'.to_index \in {call'.index, call'.index + 1})
       => (/\ call'.value = "not_moved"
           /\ files' = files
           /\ \A c \in call'.sys : c.sys # "open_w")]_vars

\* ------------------------------------------------------------------ lines
\* SpecLines: split_cell and merge_cells applied to cells of several lines,
\* of every type, with sources up to LineCellSourceSize bytes.
LineCellSourceSize == 6

LineConfig ==
    [allow_root_dirs |-> <<WorkspaceRoot>>, max_cell_source_size |-> LineCellSourceSize,
     max_cell_output_size |-> LineCellSourceSize]

ThreeLines == <<"a", "\n", "a", "\n", "a">>
ThreeLinesEnded == <<"a", "\n", "a", "\n", "a", "\n">>
CrLfLines == <<"a", "\r", "\n", "a">>

LineNotebooks ==
    { [cells |-> << CodeCell(1, ThreeLines, <<Output(<<"a">>)>>, 1, {<<"k1", "v1">>}),
                    CodeCell(2, <<"a">>, <<Output(<<"a">>)>>, 2, {<<"k2", "v2">>}) >>,
       metadata |-> {<<"kernel", "python3">>}],
      [cells |-> << new_markdown_cell(1, <<>>, {<<"k1", "v1">>}, {"image.png"}),
                    new_markdown_cell(2, <<TwoByteChar, "\n">>, {<<"k2", "v2">>}, {}) >>,
       metadata |-> {}],
      [cells |-> << new_raw_cell(1, CrLfLines, {<<"k1", "v1">>}, {}),
                    new_raw_cell(2, <<"a">>, {}, {}) >>,
       metadata |-> {}],
      [cells |-> << CodeCell(1, ThreeLinesEnded, <<Output(<<"a">>)>>, 1, {<<"k1", "v1">>}),
                    new_markdown_cell(2, <<"a">>, {}, {}) >>,
       metadata |-> {}] }

LineNumberInputs == 0..5

InitLines ==
    /\ config = LineConfig
    /\ \E nb \in LineNotebooks : files = (NbA :> nb) @@ (OutsideNb :> SecretNotebook)
    /\ dirs = InitDirs
    /\ call = NoCall
    /\ steps = 0
    /\ NoSessions

LinesSplitCell ==
    \E i \in IndexInputs, k \in LineNumberInputs : notebook_split_cell(NbA, i, k)

LinesMergeCells == \E i \in BoundsIndexInputs : notebook_merge_cells(NbA, i)

NextLines ==
    \/ LinesSplitCell
    \/ LinesMergeCells

SpecLines == InitLines /\ [][NextLines]_vars

\* ------------------------------------------------------------------ properties of SpecLines
\* the cells before 0-based index i are kept and the cells after it are
\* moved up by shift places
OthersKeepOrder(old, new, i, shift) ==
    /\ Len(new) = Len(old) + shift
    /\ \A j \in 1..Len(old) :
           /\ j < i + 1 => new[j] = old[j]
           /\ j > i + 1 => new[j + shift] = old[j]

\* C14: a successful split_cell(i, k) leaves at index i the lines before the
\* 1-based line k and at index i + 1 the lines from line k on, terminators
\* kept, so that the two sources concatenated are the original source; both
\* cells have the original's type and metadata, there is one cell more and
\* the other cells keep their order.
C14_SplitAtLine ==
    [][(call'.op = "notebook_split_cell" /\ call'.result = Ok)
       => LET old == Cells(files)
              new == Cells(files')
              i == call'.index
              k == call'.line
              orig == old[i + 1]
              lines == splitlines(orig.source)
          IN  /\ OnlyCellsChange
              /\ i + 1 \in 1..Len(old)
              /\ OthersKeepOrder(old, new, i, 1)
              /\ new[i + 1].source = Concat(SubSeq(lines, 1, k - 1))
              /\ new[i + 2].source = Concat(SubSeq(lines, k, Len(lines)))
              /\ new[i + 1].source \o new[i + 2].source = orig.source
              /\ new[i + 1].cell_type = orig.cell_type
              /\ new[i + 2].cell_type = orig.cell_type
              /\ new[i + 1].metadata = orig.metadata
              /\ new[i + 2].metadata = orig.metadata
              /\ new[i + 1].id = orig.id
              /\ new[i + 2].id \notin Ids(old)]_vars

\* a raw cell whose lines end in "\r\n" split into two raw cells that carry
\* the original's metadata
C14_Witness ==
    /\ call.op = "notebook_split_cell"
    /\ call.result = Ok
    /\ LET cells == Cells(files)
           i == call.index
       IN  /\ cells[i + 1].cell_type = "raw"
           /\ cells[i + 2].cell_type = "raw"
           /\ cells[i + 1].source = <<"a", "\r", "\n">>
           /\ cells[i + 2].source = <<"a">>
           /\ cells[i + 2].metadata = {<<"k1", "v1">>}

\* the number of lines of the cell at 0-based index i
LineCount(cells, i) == Len(splitlines(cells[i + 1].source))

\* C15: split_cell(i, k) on an existing cell fails with the split position
\* error and leaves the files as they were when k <= 1 and when
\* k > line_count + 1.
C15_SplitPositionRejected ==
    [][(/\ call'.op = "notebook_split_cell"
        /\ call'.index + 1 \in 1..Len(Cells(files))
        /\ \/ call'.line <= 1
           \/ call'.line > LineCount(Cells(files), call'.index) + 1)
       => (/\ call'.result = Raise("ValueError", "split_line")
           /\ files' = files
           /\ \A c \in call'.sys : c.sys # "open_w")]_vars

\* a split beyond the end of a cell of three lines, rejected
C15_Witness ==
    /\ call.op = "notebook_split_cell"
    /\ call.result = Raise("ValueError", "split_line")
    /\ call.index + 1 \in 1..Len(Cells(files))
    /\ LineCount(Cells(files), call.index) = 3
    /\ call.line = 5

\* C16: split_cell(i, line_count + 1) on a cell that has lines succeeds,
\* keeps the source of cell i and inserts at i + 1 a cell of the same type
\* with an empty source.
C16_SplitAfterLastLine ==
    [][(/\ call'.op = "notebook_split_cell"
        /\ call'.index + 1 \in 1..Len(Cells(files))
        /\ LineCount(Cells(files), call'.index) >= 1
        /\ call'.line = LineCount(Cells(files), call'.index) + 1)
       => LET old == Cells(files)
              new == Cells(files')
              i == call'.index
          IN  /\ call'.result = Ok
              /\ Len(new) = Len(old) + 1
              /\ new[i + 1].source = old[i + 1].source
              /\ new[i + 2].source = <<>>
              /\ new[i + 2].cell_type = old[i + 1].cell_type]_vars

\* C17: a successful merge_cells(first) leaves at index first the first cell
\* with the source source(first) + "\n" + source(first + 1), whatever the
\* first source ends with, keeps the first cell's metadata, removes the cell
\* at first + 1, moves the later cells down by one and yields N - 1 cells.
C17_MergeJoinsWithNewline ==
    [][(call'.op = "notebook_merge_cells" /\ call'.result = Ok)
       => LET old == Cells(files)
              new == Cells(files')
              f == call'.index + 1
          IN  /\ OnlyCellsChange
              /\ f \in 1..(Len(old) - 1)
              /\ Len(new) = Len(old) - 1
              /\ new[f].source = old[f].source \o <<"\n">> \o old[f + 1].source
              /\ new[f].metadata = old[f].metadata
              /\ new[f].cell_type = old[f].cell_type
              /\ new[f].id = old[f].id
              /\ \A j \in 1..Len(old) :
                     /\ j < f => new[j] = old[j]
                     /\ j > f + 1 => new[j - 1] = old[j]]_vars

\* an empty markdown cell merged with the cell after it: the source starts
\* with the separator, and the metadata is the first cell's
C17_Witness ==
    /\ call.op = "notebook_merge_cells"
    /\ call.result = Ok
    /\ Len(Cells(files)) = 1
    /\ Cells(files)[1].source = <<"\n", TwoByteChar, "\n">>
    /\ Cells(files)[1].metadata = {<<"k1", "v1">>}

\* C18: merge_cells(first) succeeds exactly when 0 <= first < N - 1, the two
\* cells have the same type, the type is code or markdown and the joined
\* source has at most max_cell_source_size bytes; otherwise it fails with a
\* BoundsError, TypeError or SizeError for a condition that does not hold, and
\* the files are as they were.
C18_MergeConditions ==
    [][call'.op = "notebook_merge_cells"
       => LET old == Cells(files)
              f == call'.index + 1
              InRange == 0 <= call'.index /\ call'.index < Len(old) - 1
              SameType == old[f].cell_type = old[f + 1].cell_type
              Mergeable == old[f].cell_type \in {"code", "markdown"}
              Fits == ByteLen(old[f].source \o <<"\n">> \o old[f + 1].source)
                          <= config.max_cell_source_size
          IN  /\ call'.result = Ok <=> (InRange /\ SameType /\ Mergeable /\ Fits)
              /\ call'.result # Ok
                     => /\ files' = files
                        /\ \/ BoundsError(call'.result) /\ ~InRange
                           \/ /\ TypeError(call'.result)
                              /\ InRange /\ ~(SameType /\ Mergeable)
                           \/ SizeError(call'.result) /\ InRange /\ ~Fits]_vars

\* two raw cells, in range and small enough, whose merge is rejected
C18_Witness ==
    /\ call.op = "notebook_merge_cells"
    /\ TypeError(call.result)
    /\ call.index = 0
    /\ Len(Cells(files)) >= 2
    /\ Cells(files)[1].cell_type = "raw"
    /\ Cells(files)[2].cell_type = "raw"
    /\ ByteLen(Cells(files)[1].source) + ByteLen(Cells(files)[2].source) + 1
           <= config.max_cell_source_size

Cleared(cell) == cell.outputs = <<>> /\ cell.execution_count = None

\* C19: after a successful split_cell of a code cell both halves, and after
\* a successful merge_cells of code cells the surviving cell, have no outputs
\* and no execution_count in the stored notebook, and every other cell is
\* stored as it was, outputs included.
C19_SplitMergeClearOutputs ==
    [][(/\ call'.op \in {"notebook_split_cell", "notebook_merge_cells"}
        /\ call'.result = Ok
        /\ Cells(files)[call'.index + 1].cell_type = "code")
       => LET old == Cells(files)
              new == Cells(files')
              i == call'.index + 1
          IN  IF call'.op = "notebook_split_cell"
              THEN /\ Cleared(new[i])
                   /\ Cleared(new[i + 1])
                   /\ \A j \in 1..Len(old) :
                          /\ j < i => new[j] = old[j]
                          /\ j > i => new[j + 1] = old[j]
              ELSE /\ Cleared(new[i])
                   /\ \A j \in 1..Len(old) :
                          /\ j < i => new[j] = old[j]
                          /\ j > i + 1 => new[j - 1] = old[j]]_vars

\* an executed code cell split while the executed code cell after it keeps
\* its outputs
C19_Witness ==
    /\ call.op = "notebook_split_cell"
    /\ call.result = Ok
    /\ call.index = 0
    /\ Len(Cells(files)) = 3
    /\ Cells(files)[1].cell_type = "code"
    /\ Cleared(Cells(files)[1])
    /\ Cleared(Cells(files)[2])
    /\ Cells(files)[3].outputs # <<>>
    /\ Cells(files)[3].execution_count = 2

\* a merge_cells on the cell that the preceding step split
MergeAfterSplit ==
    /\ call.op = "notebook_split_cell"
    /\ call.result = Ok
    /\ call'.op = "notebook_merge_cells"
    /\ call'.path = call.path
    /\ call'.index = call.index

\* the split of the preceding step undone by the merge, but for one "\n" at
\* the boundary: the halves stored by the split concatenate to the source
\* that was split
SplitUndone ==
    LET mid == Cells(files)
        new == Cells(files')
        i == call.index + 1
    IN  /\ call'.result = Ok
        /\ Len(new) = Len(mid) - 1
        /\ new[i].source = mid[i].source \o <<"\n">> \o mid[i + 1].source
        /\ \A j \in 1..Len(new) : j # i =>
               new[j] = mid[IF j < i THEN j ELSE j + 1]

\* C20 as stated: merge_cells(i) after any accepted split_cell(i, k)
\* restores the cell count and yields the original source with one "\n"
\* inserted at the split boundary.
C20_SplitThenMergeRestores == [][MergeAfterSplit => SplitUndone]_vars

\* C20: merge_cells(i) after an accepted split_cell(i, k) restores the cell
\* count and yields the original source with one "\n" inserted at the split
\* boundary exactly when the cell is a code or markdown cell and the
\* original source has fewer bytes than max_cell_source_size; otherwise the
\* merge is rejected with a ValueError and both halves stay.
C20_SplitThenMergeRestoresIfMergeable ==
    [][MergeAfterSplit =>
       LET mid == Cells(files)
           i == call.index + 1
           original == mid[i].source \o mid[i + 1].source
       IN  IF /\ mid[i].cell_type \in {"code", "markdown"}
              /\ ByteLen(original) < config.max_cell_source_size
           THEN SplitUndone
           ELSE /\ call'.result.exc = "ValueError"
                /\ files' = files]_vars

\* a three-line code cell split after its second line and merged back
C20_Witness ==
    /\ call.op = "notebook_merge_cells"
    /\ call.result = Ok
    /\ call.index = 0
    /\ steps = 2
    /\ Len(Cells(files)) = 2
    /\ Cells(files)[1].cell_type = "code"
    /\ Cells(files)[1].source = <<"a", "\n", "a", "\n", "\n", "a">>

\* ------------------------------------------------------------------ retyping and duplication
\* SpecTypes: change_cell_type and duplicate_cell applied to notebooks whose
\* cells are of the three types, with outputs on the code cells and
\* attachments on the markdown and raw cells.
FigureCell == new_markdown_cell(2, <<"a">>, {<<"k2", "v2">>}, {"image.png"})
RawFigureCell == new_raw_cell(1, <<"a", "\n">>, {<<"k1", "v1">>}, {"image.png"})

TypeNotebooks ==
    { [cells |-> <<ExecutedCell>>, metadata |-> {<<"kernel", "python3">>}],
      [cells |-> <<ExecutedCell, FigureCell>>, metadata |-> {}],
      [cells |-> <<RawFigureCell, PlainCell>>, metadata |-> {}] }

InitTypes ==
    /\ config = SmallConfig(<<WorkspaceRoot>>)
    /\ \E nb \in TypeNotebooks : files = (NbA :> nb)
    /\ dirs = InitDirs
    /\ call = NoCall
    /\ steps = 0
    /\ NoSessions

TypesChangeCellType ==
    \E i \in IndexInputs, t \in TypeInputs : notebook_change_cell_type(NbA, i, t)

TypesDuplicateCell ==
    \E i \in IndexInputs, n \in CountInputs : notebook_duplicate_cell(NbA, i, n)

NextTypes ==
    \/ TypesChangeCellType
    \/ TypesDuplicateCell

SpecTypes == InitTypes /\ [][NextTypes]_vars

\* ------------------------------------------------------------------ properties of SpecTypes
NoWrite(c) == \A s \in c.sys : s.sys # "open_w"

\* C21: change_cell_type(i, t) on a cell that is of type t returns success,
\* leaves every file as it was and opens no file for writing.
C21_SameTypeIsNoOp ==
    [][(/\ call'.op = "notebook_change_cell_type"
        /\ call'.index + 1 \in 1..Len(Cells(files))
        /\ Cells(files)[call'.index + 1].cell_type = call'.cell_type)
       => (/\ call'.result = Ok
           /\ files' = files
           /\ NoWrite(call'))]_vars

\* a second change to code of an executed code cell, which keeps its outputs
C21_Witness ==
    /\ call.op = "notebook_change_cell_type"
    /\ call.value = "already_of_type"
    /\ call.cell_type = "code"
    /\ steps = 2
    /\ Cells(files)[call.index + 1].cell_type = "code"
    /\ Cells(files)[call.index + 1].outputs # <<>>
    /\ Cells(files)[call.index + 1].execution_count = 1

\* C22: a successful change_cell_type(i, t) to another type leaves at index
\* i a cell of type t with the source and metadata it had, without outputs
\* and execution_count, without attachments if t is code and with its
\* attachments if it goes from markdown to raw or back; the other cells and
\* the number of cells stay.
C22_ChangeTypeKeepsContent ==
    [][(/\ call'.op = "notebook_change_cell_type"
        /\ call'.result = Ok
        /\ call'.value = "changed")
       => LET old == Cells(files)
              new == Cells(files')
              i == call'.index + 1
              t == call'.cell_type
          IN  /\ i \in 1..Len(old)
              /\ old[i].cell_type # t
              /\ t \in {"code", "markdown", "raw"}
              /\ Len(new) = Len(old)
              /\ \A j \in 1..Len(old) : j # i => new[j] = old[j]
              /\ new[i].cell_type = t
              /\ new[i].source = old[i].source
              /\ new[i].metadata = old[i].metadata
              /\ new[i].outputs = <<>>
              /\ new[i].execution_count = None
              /\ t = "code" => new[i].attachments = {}
              /\ (t # "code" /\ old[i].cell_type # "code")
                     => new[i].attachments = old[i].attachments]_vars

\* a raw cell with an attachment and metadata turned into markdown
C22_Witness ==
    /\ call.op = "notebook_change_cell_type"
    /\ call.value = "changed"
    /\ call.index = 0
    /\ call.cell_type = "markdown"
    /\ Len(Cells(files)) = 2
    /\ Cells(files)[1].cell_type = "markdown"
    /\ Cells(files)[1].attachments = {"image.png"}
    /\ Cells(files)[1].metadata = {<<"k1", "v1">>}
    /\ Cells(files)[1].source = <<"a", "\n">>
    /\ Cells(files)[2] = PlainCell

\* C23: a successful duplicate_cell(i, count) has count >= 1 and inserts
\* count copies at i + 1 .. i + count with the type, source and metadata of
\* cell i, with ids that differ from the id of every other cell, and without
\* outputs and execution_count; cell i and the cells before it stay, the
\* cells after it move up by count. With count < 1 the call fails and the
\* files stay.
C23_DuplicateInsertsCopies ==
    [][call'.op = "notebook_duplicate_cell"
       => LET old == Cells(files)
              new == Cells(files')
              i == call'.index + 1
              count == call'.count
          IN  /\ call'.result = Ok =>
                  /\ count >= 1
                  /\ i \in 1..Len(old)
                  /\ Len(new) = Len(old) + count
                  /\ \A j \in 1..Len(old) :
                         new[IF j <= i THEN j ELSE j + count] = old[j]
                  /\ \A c \in 1..count :
                         /\ new[i + c].cell_type = old[i].cell_type
                         /\ new[i + c].source = old[i].source
                         /\ new[i + c].metadata = old[i].metadata
                         /\ new[i + c].outputs = <<>>
                         /\ new[i + c].execution_count = None
                         /\ \A j \in 1..Len(new) :
                                j # i + c => new[j].id # new[i + c].id
              /\ count < 1 => (call'.result # Ok /\ files' = files)]_vars

\* an executed code cell duplicated twice
C23_Witness ==
    /\ call.op = "notebook_duplicate_cell"
    /\ call.result = Ok
    /\ call.count = 2
    /\ Len(Cells(files)) = 3
    /\ Cells(files)[1] = ExecutedCell
    /\ Cells(files)[2].source = ExecutedCell.source
    /\ Cells(files)[2].outputs = <<>>
    /\ Cells(files)[3].id # Cells(files)[2].id

\* ------------------------------------------------------------------ metadata
\* SpecMeta: the metadata of the notebook and of its cells edited with
\* updates that delete present and missing keys, overwrite and insert.
UpdateInputs ==
    { {},
      {<<"k1", None>>},
      {<<"k1", "v9">>, <<"k3", "v3">>},
      {<<"kernel", None>>, <<"k2", "v9">>, <<"k9", None>>} }

InitMeta ==
    /\ config = SmallConfig(<<WorkspaceRoot>>)
    /\ \E nb \in TypeNotebooks : files = (NbA :> nb)
    /\ dirs = InitDirs
    /\ call = NoCall
    /\ steps = 0
    /\ NoSessions

MetaEditMetadata == \E u \in UpdateInputs : notebook_edit_metadata(NbA, u)

MetaEditCellMetadata ==
    \E i \in IndexInputs, u \in UpdateInputs : notebook_edit_cell_metadata(NbA, i, u)

NextMeta ==
    \/ MetaEditMetadata
    \/ MetaEditCellMetadata

SpecMeta == InitMeta /\ [][NextMeta]_vars

\* ------------------------------------------------------------------ properties of SpecMeta
Keys(metadata) == {kv[1] : kv \in metadata}

\* new is old merged with updates: a key updated to None is missing, a key
\* updated to a value has that value alone, any other key is as it was
Merged(old, new, updates) ==
    /\ \A u \in updates :
           IF u[2] = None THEN u[1] \notin Keys(new)
           ELSE \A kv \in new : kv[1] = u[1] <=> kv = u
    /\ \A u \in updates : u[2] # None => u \in new
    /\ \A kv \in old \cup new :
           kv[1] \notin Keys(updates) => (kv \in old <=> kv \in new)

AtLimit == [n \in 1..SmallCellSourceSize |-> "a"]
OverLimit == AtLimit \o <<TwoByteChar>>

\* a cell with a small and a large stream beside a markdown cell; a cell with
\* a data bundle and a stream at the limit beside a code cell without outputs
\* and a raw cell; a cell with an error beside a code cell that has an
\* execution count and no outputs
OutputNotebooks ==
    { [cells |-> <<CodeCell(1, <<"a">>, <<Output(<<"a">>), Output(OverLimit)>>, 1, {}),
                   FigureCell>>,
       metadata |-> {<<"kernel", "python3">>}],
      [cells |-> <<CodeCell(1, <<"a">>,
                            <<DisplayData(<<<<"text/plain", OverLimit>>,
                                            <<"image/png", OverLimit>>,
                                            <<"text/html", AtLimit>>>>),
                              Output(AtLimit)>>,
                            2, {<<"k1", "v1">>}),
                   PlainCell,
                   new_raw_cell(4, <<"a">>, {}, {})>>,
       metadata |-> {}],
      [cells |-> <<CodeCell(1, <<"a">>, <<Error(<<"a">>, <<OverLimit, <<"a">>>>)>>, 3, {}),
                   CodeCell(2, <<"a">>, <<>>, 5, {})>>,
       metadata |-> {}] }

InitOutputs ==
    /\ config = SmallConfig(<<WorkspaceRoot>>)
    /\ \E nb \in OutputNotebooks : files = (NbA :> nb)
    /\ dirs = InitDirs
    /\ call = NoCall
    /\ steps = 0
    /\ NoSessions

OutputsReadCellOutput == \E i \in IndexInputs : notebook_read_cell_output(NbA, i)
OutputsClearCellOutputs == \E i \in IndexInputs : notebook_clear_cell_outputs(NbA, i)
OutputsReadCell == \E i \in IndexInputs : notebook_read_cell(NbA, i)
OutputsReadCellMetadata == \E i \in IndexInputs : notebook_read_cell_metadata(NbA, i)
OutputsReadMetadata == notebook_read_metadata(NbA)
OutputsGetCellCount == notebook_get_cell_count(NbA)

NextOutputs ==
    \/ OutputsReadCellOutput
    \/ OutputsClearCellOutputs
    \/ OutputsReadCell
    \/ OutputsReadCellMetadata
    \/ OutputsReadMetadata
    \/ OutputsGetCellCount

SpecOutputs == InitOutputs /\ [][NextOutputs]_vars

\* ------------------------------------------------------------------ properties of SpecOutputs
\* the call addresses a cell of the notebook
AddressedCell == Cells(files)[call'.index + 1]

CellAddressed == call'.index + 1 \in 1..Len(Cells(files))


C26_NonCodeOutputIsEmpty ==
    [][(/\ call'.op = "notebook_read_cell_output"
        /\ CellAddressed
        /\ AddressedCell.cell_type # "code" \/ AddressedCell.outputs = <<>>)
       => (/\ call'.result = Ok
           /\ call'.data = <<>>)]_vars

\* the textual and data fields of an output
Fields(output) ==
    IF "data" \in DOMAIN output THEN [k \in 1..Len(output.data) |-> output.data[k][2]]
    ELSE IF "text" \in DOMAIN output THEN <<output.text>>
    ELSE <<output.evalue>> \o output.traceback

\* returned stands in the place of content and names its size
NamesSizeOf(returned, content) ==
    /\ returned # content
    /\ Len(returned) >= 2
    /\ returned[1] \in {"<image data too large: ", "<data too large: ",
                        "<text data too large: "}
    /\ returned[2] = ToString(ByteLen(content))

\* each field of the returned outputs is the stored field if that has at
\* most max_cell_output_size bytes and a placeholder that names its size
\* otherwise
FieldsGuarded(stored, returned) ==
    /\ Len(returned) = Len(stored)
    /\ \A k \in 1..Len(stored) :
           /\ Len(Fields(returned[k])) = Len(Fields(stored[k]))
           /\ \A f \in 1..Len(Fields(stored[k])) :
                  IF ByteLen(Fields(stored[k])[f]) > config.max_cell_output_size
                  THEN NamesSizeOf(Fields(returned[k])[f], Fields(stored[k])[f])
                  ELSE Fields(returned[k])[f] = Fields(stored[k])[f]

\* C27 as stated: a successful read_cell_output returns every output of the
\* cell, of whatever kind, with each field longer than max_cell_output_size
\* replaced by a placeholder naming its size and each other field unchanged.
C27_LargeFieldsReplaced ==
    [][(call'.op = "notebook_read_cell_output" /\ call'.result = Ok)
       => FieldsGuarded(AddressedCell.outputs, call'.data)]_vars

ReadOps ==
    {"notebook_read_cell", "notebook_read_cell_output", "notebook_read_cell_metadata",
     "notebook_read_metadata", "notebook_get_cell_count"}

\* C28: a read tool, whether it succeeds, truncates or fails, leaves the
\* files and directories as they were and opens no file for writing; a read
\* repeated with the same arguments returns what it returned before.
C28_ReadsNeverWrite ==
    [][call'.op \in ReadOps
       => (/\ files' = files
           /\ dirs' = dirs
           /\ NoWrite(call')
           /\ (/\ call.op = call'.op
               /\ call.path = call'.path
               /\ call.index = call'.index)
              => (/\ call'.result = call.result
                  /\ call'.value = call.value
                  /\ call'.data = call.data))]_vars

\* outputs read at the second step: one is returned truncated and is still
\* stored in full
C28_Witness ==
    /\ call.op = "notebook_read_cell_output"
    /\ call.result = Ok
    /\ call.index = 0
    /\ steps = 2
    /\ Len(call.data) = 2
    /\ call.data[2].text = TextTooLarge(OverLimit)
    /\ Cells(files)[1].outputs[2].text = OverLimit
    /\ Cells(files)[1].execution_count = 1

\* C29: clear_cell_outputs(i) on a code cell that has outputs or an
\* execution count stores that cell without outputs and execution count and
\* every other cell as it was; on a cell of another type, or a code cell that
\* has neither, it returns success and leaves the files, opening none for
\* writing.
C29_ClearCellOutputs ==
    [][(call'.op = "notebook_clear_cell_outputs" /\ CellAddressed)
       => LET old == Cells(files)
              new == Cells(files')
              i == call'.index + 1
          IN  /\ call'.result = Ok
              /\ IF /\ old[i].cell_type = "code"
                    /\ old[i].outputs # <<>> \/ ~IsNone(old[i].execution_count)
                 THEN /\ new = [old EXCEPT ![i] = new[i]]
                      /\ new[i].outputs = <<>>
                      /\ IsNone(new[i].execution_count)
                      /\ ClearOutputs(new[i]) = ClearOutputs(old[i])
                      /\ ~NoWrite(call')
                 ELSE /\ files' = files
                      /\ NoWrite(call')]_vars

\* a code cell with an execution count and no outputs cleared beside a cell
\* that keeps its error output
C29_Witness ==
    /\ call.op = "notebook_clear_cell_outputs"
    /\ call.value = "cleared"
    /\ call.index = 1
    /\ Cells(files)[2].cell_type = "code"
    /\ IsNone(Cells(files)[2].execution_count)
    /\ Cells(files)[1].outputs # <<>>
    /\ Cells(files)[1].execution_count = 3

\* ------------------------------------------------------------------ properties of SpecSize: save
\* C30: a call whose save is rejected for the size of the serialized
\* notebook leaves every file as it was and has opened none for writing, and
\* every file written by a successful call has at most max_notebook_size
\* bytes.
C30_SaveWithinNotebookSize ==
    [][/\ call'.result = Raise("IOError", "notebook_size")
          => (files' = files /\ NoWrite(call'))
       /\ call'.result = Ok
          => \A s \in call'.sys :
                 s.sys = "open_w" =>
                     NotebookBytes(files'[s.path]) <= max_notebook_size]_vars

\* an edit whose source is within max_cell_source_size rejected at the save
C30_Witness ==
    /\ call.op = "notebook_edit_cell"
    /\ call.result = Raise("IOError", "notebook_size")
    /\ ByteLen(call.source) <= config.max_cell_source_size
    /\ Len(Cells(files)) = 2
    /\ NotebookBytes(files[NbA]) <= max_notebook_size

\* ------------------------------------------------------------------ properties of SpecFs: files
\* the path passes the checks of a save: absolute, inside a root, .ipynb
Authorized(p) ==
    /\ isabs(p)
    /\ is_path_allowed(p, config.allow_root_dirs)
    /\ endswith(p, IpynbExt)

\* C31 as stated: a save to an authorized .ipynb path whose parent directory
\* is missing creates the parent directories and writes the notebook.
C31_SaveCreatesParents ==
    [][(/\ call'.op = "notebook_create"
        /\ Authorized(call'.path)
        /\ ~exists(realpath(call'.path))
        /\ ~isdir(dirname(realpath(call'.path))))
       => (/\ call'.result = Ok
           /\ realpath(call'.path) \in DOMAIN files'
           /\ dirname(realpath(call'.path)) \in dirs')]_vars

\* the tools that load the notebook at their path
LoadingOps ==
    CellEditOps \cup ReadOps \cup
    {"notebook_clear_cell_outputs", "notebook_edit_cell_metadata", "notebook_edit_metadata"}

\* the paths of the call: the notebook path and, for a rename, the new path
\* as well
PathsOf(c) == IF c.op = "notebook_rename" THEN {c.path, c.new_path} ELSE {c.path}

\* C37 as stated: the checks on the path come before every other check and
\* run in the order absolute path, authorization, extension, existence, so
\* that a call fails with the first of these that its path does not pass,
\* whatever its other arguments are.
C37_PathChecksFirst ==
    [][LET ps == PathsOf(call')
       IN  IF \E p \in ps : ~isabs(p)
           THEN call'.result = Raise("ValueError", "not_absolute")
           ELSE IF \E p \in ps : ~is_path_allowed(p, config.allow_root_dirs)
           THEN call'.result = Raise("PermissionError", "access_denied")
           ELSE IF \E p \in ps : ~endswith(p, IpynbExt)
           THEN call'.result = Raise("ValueError", "file_type")
           ELSE (/\ call'.op \in LoadingOps \cup {"notebook_delete", "notebook_rename"}
                 /\ ~isfile(realpath(call'.path)))
                => call'.result = Raise("FileNotFoundError", "not_found")]_vars

\* ------------------------------------------------------------------ files
\* SpecFiles: notebooks created, deleted, renamed and loaded at paths inside
\* the root, one of which is taken by a directory and one of which lies in
\* a directory that does not exist.
DirNb == Ipynb(<<"/", "r", "/", "d", "i", "r">>)

FilePaths == {NbA, NbB, NestedNb, DirNb}

InitFiles ==
    /\ config = SmallConfig(<<WorkspaceRoot>>)
    /\ files = (NbA :> [cells |-> <<ExecutedCell, NoteCell>>, metadata |-> {}])
    /\ dirs = InitDirs \cup {DirNb}
    /\ call = NoCall
    /\ steps = 0
    /\ NoSessions

FilesCreate == \E p \in FilePaths : notebook_create(p)
FilesDelete == \E p \in FilePaths : notebook_delete(p)
FilesRename == \E p \in FilePaths, q \in FilePaths : notebook_rename(p, q)
FilesGetCellCount == \E p \in FilePaths : notebook_get_cell_count(p)

NextFiles ==
    \/ FilesCreate
    \/ FilesDelete
    \/ FilesRename
    \/ FilesGetCellCount

SpecFiles == InitFiles /\ [][NextFiles]_vars


\* properties of SpecFiles
Without(f, p) == [q \in DOMAIN f \ {p} |-> f[q]]

\* C33: a path comes to hold a document only by a successful create on it
\* (a document of 0 cells) or a successful rename onto it (the document that
\* was at the source, which then no longer exists), and ceases to hold one
\* only by a successful delete of it or rename from it; a path that holds a
\* document loads; delete, rename as source and load on a path that holds
\* no document fail with FileNotFoundError and change nothing.
C33_FileLifecycle ==
    [][LET c == call'
           p == realpath(c.path)
       IN  /\ (c.op = "notebook_create" /\ c.result = Ok)
                 => /\ p \notin DOMAIN files
                    /\ p \in DOMAIN files' /\ Len(files'[p].cells) = 0
                    /\ Without(files', p) = files
           /\ (c.op = "notebook_delete" /\ c.result = Ok)
                 => /\ p \in DOMAIN files
                    /\ files' = Without(files, p)
           /\ (c.op = "notebook_rename" /\ c.result = Ok)
                 => LET q == realpath(c.new_path)
                    IN  /\ p \in DOMAIN files /\ q \notin DOMAIN files
                        /\ p \notin DOMAIN files'
                        /\ q \in DOMAIN files' /\ files'[q] = files[p]
                        /\ Without(files', q) = Without(files, p)
           /\ c.result # Ok => files' = files
           /\ c.op = "notebook_get_cell_count"
                 => /\ files' = files
                    /\ p \in DOMAIN files
                          => c.result = Ok /\ c.data = Len(files[p].cells)
           /\ (/\ c.op \in {"notebook_delete", "notebook_rename", "notebook_get_cell_count"}
               /\ p \notin DOMAIN files)
                 => /\ c.result = Raise("FileNotFoundError", "not_found")
                    /\ files' = files /\ dirs' = dirs]_vars

C33_Witness ==
    /\ call.op = "notebook_rename" /\ call.path = NbA /\ call.new_path = NestedNb
    /\ call.result = Ok
    /\ DOMAIN files = {NestedNb}
    /\ files[NestedNb].cells = <<ExecutedCell, NoteCell>>

\* C34: create on a path that exists, and rename of a document onto a
\* destination that exists as a file or as a directory, fail with
\* FileExistsError and change no file and no directory; no create and no
\* rename changes the content of a file that was there.
C34_NoOverwrite ==
    [][LET c == call'
           p == realpath(c.path)
       IN  /\ (c.op = "notebook_create" /\ exists(p))
                 => /\ c.result = Raise("FileExistsError", "exists")
                    /\ files' = files /\ dirs' = dirs
           /\ (c.op = "notebook_rename" /\ isfile(p) /\ exists(realpath(c.new_path)))
                 => /\ c.result = Raise("FileExistsError", "exists")
                    /\ files' = files /\ dirs' = dirs
           /\ c.op \in {"notebook_create", "notebook_rename"}
                 => \A f \in DOMAIN files \cap DOMAIN files' : files'[f] = files[f]]_vars

C34_Witness ==
    /\ call.op = "notebook_rename" /\ call.path = NbA /\ call.new_path = DirNb
    /\ call.result = Raise("FileExistsError", "exists")
    /\ NbA \in DOMAIN files /\ DirNb \in dirs /\ DirNb \notin DOMAIN files


\* ------------------------------------------------------------------ loading
\* SpecLoad: tools that load, on a readable notebook, on files the parser
\* rejects, on a path that holds no file and on a path outside the root,
\* with indexes, sources and cell types inside and outside what the tools
\* accept.
NotJSONError == Raise("NotJSONError", "Notebook does not appear to be JSON")
ValidationError == Raise("ValidationError", "Invalid notebook format")

NbC == Ipynb(<<"/", "r", "/", "c">>)
MissingNb == Ipynb(<<"/", "r", "/", "m">>)

LoadPaths == {NbA, NbB, NbC, MissingNb, OutsideNb}

InitLoad ==
    /\ config \in {SmallConfig(<<WorkspaceRoot>>), DefaultConfig(<<WorkspaceRoot>>)}
    /\ files = (NbA :> [cells |-> <<ExecutedCell, NoteCell>>, metadata |-> {}])
                 @@ (NbB :> Unreadable(NotJSONError))
                 @@ (NbC :> Unreadable(ValidationError))
                 @@ (OutsideNb :> SecretNotebook)
    /\ dirs = InitDirs
    /\ call = NoCall
    /\ steps = 0
    /\ NoSessions

LoadGetCellCount == \E p \in LoadPaths : notebook_get_cell_count(p)

LoadReadCell == \E p \in LoadPaths, i \in {0, MaxCells} : notebook_read_cell(p, i)

LoadEditCell ==
    \E p \in LoadPaths, i \in {0, MaxCells},
       s \in {<<"a">>, OversizeSource, ExactDefaultSource, OversizeDefaultSource} :
        notebook_edit_cell(p, i, s)

LoadChangeCellType ==
    \E p \in LoadPaths, t \in {"markdown", "bogus"} : notebook_change_cell_type(p, 0, t)

NextLoad ==
    \/ LoadGetCellCount
    \/ LoadReadCell
    \/ LoadEditCell
    \/ LoadChangeCellType

SpecLoad == InitLoad /\ [][NextLoad]_vars

Category(result) ==
    IF PathError(result) THEN "path"
    ELSE IF BoundsError(result) THEN "bounds"
    ELSE IF result.msg \in {"source_size", "notebook_size"} THEN "size"
    ELSE IF result.msg = "cell_type" THEN "type"
    ELSE IF result.msg = "read_failed" /\ result.text = ValidationError.msg THEN "schema"
    ELSE "other"

Categories == {"path", "bounds", "size", "type", "schema"}

\* C32 as stated: a failure of one of the five categories (path, index,
\* size, cell type, schema on load) never has the I/O failure kind, and two
\* failures of different categories never have the same kind.
C32_KindsDistinguishable ==
    [][/\ Category(call'.result) \in Categories => call'.result.exc # "IOError"
       /\ (/\ Category(call.result) \in Categories
           /\ Category(call'.result) \in Categories
           /\ Category(call.result) # Category(call'.result))
             => call.result.exc # call'.result.exc]_vars


\* ------------------------------------------------------------------ concurrent calls
\* SpecRace: two server processes over the same files, each running one
\* tool call. A process reaches the file system at read_notebook, at
\* os.path.exists and at write_notebook; between these the other process
\* may run. Nothing in notebook_ops or the tools takes a lock.
MaxTasks == 2

TaskIds == 1..MaxTasks

\* notebook_edit_cell up to its call of write_notebook: the failure, or the
\* document read and the edited document it is about to write
edit_cell_loaded(notebook_path, cell_index, source) ==
    IF SourceTooLarge(source)
    THEN [result |-> Raise("ValueError", "source_size"), base |-> None, nb |-> None]
    ELSE LET r == read_notebook(notebook_path, config.allow_root_dirs)
         IN  IF r.result # Ok THEN [result |-> r.result, base |-> None, nb |-> None]
             ELSE IF ~IndexInBounds(cell_index, Len(r.nb.cells))
             THEN [result |-> Raise("IndexError", "cell_index"), base |-> None,
                   nb |-> None]
             ELSE [result |-> Ok, base |-> r.nb,
                   nb |-> [r.nb EXCEPT !.cells[cell_index + 1].source = source]]

\* notebook_create up to its call of write_notebook
create_checked(notebook_path) ==
    IF ~isabs(notebook_path) THEN Raise("ValueError", "not_absolute")
    ELSE IF ~is_path_allowed(notebook_path, config.allow_root_dirs)
    THEN Raise("PermissionError", "access_denied")
    ELSE IF ~endswith(realpath(notebook_path), IpynbExt)
    THEN Raise("ValueError", "file_type")
    ELSE IF exists(realpath(notebook_path))
    THEN Raise("FileExistsError", "exists")
    ELSE Ok

\* a save that fails when the file is no longer the document that was loaded
save_if_unchanged(t) ==
    LET p == realpath(tasks[t].path)
    IN  IF (IF IsNone(tasks[t].base) THEN p \in DOMAIN files
            ELSE p \notin DOMAIN files \/ files[p] # tasks[t].base)
        THEN [result |-> Raise("IOError", "conflict"), sys |-> {}, files |-> files]
        ELSE write_notebook(tasks[t].path, tasks[t].nb, config.allow_root_dirs)

\* await notebook_ops.write_notebook(notebook_path, nb, ...) of a call in flight
save(t) == write_notebook(tasks[t].path, tasks[t].nb, config.allow_root_dirs)

Task(op, notebook_path, cell_index, source, pc, result, base, nb) ==
    [op |-> op, path |-> notebook_path, index |-> cell_index, source |-> source,
     pc |-> pc, result |-> result, base |-> base, nb |-> nb]

InitRace ==
    /\ config = SmallConfig(<<WorkspaceRoot>>)
    /\ files = (NbA :> [cells |-> <<ExecutedCell, NoteCell>>, metadata |-> {}])
    /\ dirs = InitDirs
    /\ call = NoCall
    /\ steps = 0
    /\ NoSessions

RaceEditLoad ==
    \E t \in TaskIds \ DOMAIN tasks, i \in {0, 1}, s \in {<<"b">>, <<"c">>} :
        LET l == edit_cell_loaded(NbA, i, s)
        IN  /\ DOMAIN tasks = 1..(t - 1)
            /\ tasks' = Append(tasks,
                   Task("notebook_edit_cell", NbA, i, s,
                        IF l.result = Ok THEN "loaded" ELSE "done",
                        l.result, l.base, l.nb))
            /\ UNCHANGED <<config, files, dirs, call, steps, kernel_cache, kernel_starts>>

RaceCreateCheck ==
    \E t \in TaskIds \ DOMAIN tasks, p \in {NbA, NbB} :
        LET r == create_checked(p)
        IN  /\ DOMAIN tasks = 1..(t - 1)
            /\ tasks' = Append(tasks,
                   Task("notebook_create", p, None, <<>>,
                        IF r = Ok THEN "loaded" ELSE "done", r, None, new_notebook))
            /\ UNCHANGED <<config, files, dirs, call, steps, kernel_cache, kernel_starts>>

RaceSave ==
    \E t \in DOMAIN tasks :
        /\ tasks[t].pc = "loaded"
        /\ files' = save(t).files
        /\ tasks' = [tasks EXCEPT ![t].pc = "done", ![t].result = save(t).result]
        /\ UNCHANGED <<config, dirs, call, steps, kernel_cache, kernel_starts>>

NextRace ==
    \/ RaceEditLoad
    \/ RaceCreateCheck
    \/ RaceSave

SpecRace == InitRace /\ [][NextRace]_vars

\* properties of SpecRace
\* C35: no lock and no version check stands between a load and the save
\* that follows it: the save of an edit succeeds and stores the document
\* the call derived from its own load, also when another call has saved the
\* file in between, so that of two edits that both return success the file
\* may hold the effect of only the last writer.
C35_LastWriterWins ==
    [][\A t \in DOMAIN tasks :
          (/\ tasks[t].op = "notebook_edit_cell"
           /\ tasks[t].pc = "loaded"
           /\ tasks'[t].pc = "done")
          => /\ tasks'[t].result = Ok
             /\ files'[realpath(tasks[t].path)] = tasks[t].nb]_vars

\* both edits returned success; the file holds the edit of cell 1 and, in
\* cell 0, the source from before the other edit
C35_Witness ==
    /\ DOMAIN tasks = {1, 2}
    /\ \A t \in {1, 2} : /\ tasks[t].op = "notebook_edit_cell"
                         /\ tasks[t].pc = "done"
                         /\ tasks[t].result = Ok
    /\ tasks[1].index = 0 /\ tasks[1].source = <<"b">>
    /\ tasks[2].index = 1 /\ tasks[2].source = <<"c">>
    /\ files[NbA].cells[2].source = <<"c">>
    /\ files[NbA].cells[1].source = ExecutedCell.source

\* C39 as stated: of two create calls on the same path at most one returns
\* success.
C39_OneCreateSucceeds ==
    ~(/\ DOMAIN tasks = {1, 2}
      /\ \A t \in {1, 2} : /\ tasks[t].op = "notebook_create"
                           /\ tasks[t].pc = "done"
                           /\ tasks[t].result = Ok
      /\ tasks[1].path = tasks[2].path)


\* ------------------------------------------------------------------ notebook_execute_cell
\* server_url.rstrip("/")
RECURSIVE rstrip(_)
rstrip(s) == IF s # <<>> /\ s[Len(s)] = "/" THEN rstrip(Front(s)) ELSE s

DefaultServerUrl == <<"l">>

\* if not server_url: server_url = "http://localhost:8888"; else rstrip("/")
NormalizedUrl(server_url) == IF server_url = <<>> THEN DefaultServerUrl ELSE rstrip(server_url)

\* cache_key = (notebook_path, server_url, token)
CacheKey(notebook_path, server_url, token) ==
    <<notebook_path, NormalizedUrl(server_url), token>>

\* What the Jupyter server does during a call: everything works, or
\* KernelClient.start, NbModelClient.start, execute_cell or
\* NbModelClient.stop raises.
ServerOutcomes == {"ok", "kernel_start", "notebook_start", "execute", "notebook_stop"}

\* The outcome of a call of notebook_execute_cell and the kernel cache it
\* leaves; kernel is the KernelClient the call creates if it needs one.
ExecuteFailed(result, sys) ==
    [result |-> result, data |-> <<>>, sys |-> sys,
     kernel_cache |-> kernel_cache, kernel_starts |-> kernel_starts]

\* an execution that caches the kernel client before it starts it
execute_cell_caching_first(notebook_path, cell_index, server_url, token, server, outputs, kernel) ==
    LET r == read_notebook(notebook_path, config.allow_root_dirs)
        cache_key == CacheKey(notebook_path, server_url, token)
    IN  IF r.result # Ok THEN ExecuteFailed(r.result, r.sys)
        ELSE [ExecuteFailed(Raise("RuntimeError", "kernel_connect"), r.sys)
                 EXCEPT !.kernel_cache = (cache_key :> kernel) @@ kernel_cache]

execute_cell(notebook_path, cell_index, server_url, token, server, outputs, kernel) ==
    IF ~isabs(notebook_path) THEN ExecuteFailed(Raise("ValueError", "not_absolute"), {})
    ELSE IF ~is_path_allowed(notebook_path, config.allow_root_dirs)
    THEN ExecuteFailed(Raise("PermissionError", "access_denied"), {})
    ELSE
    LET r == read_notebook(notebook_path, config.allow_root_dirs)
        nb == r.nb
        cache_key == CacheKey(notebook_path, server_url, token)
        cached == cache_key \in DOMAIN kernel_cache
        cache == IF cached THEN kernel_cache ELSE (cache_key :> kernel) @@ kernel_cache
        starts == IF cached THEN kernel_starts
                  ELSE kernel_starts \cup {[key |-> cache_key, kernel |-> kernel]}
        connection == Sys("notebook_start", notebook_path)
        closed == {connection, Sys("notebook_stop", notebook_path)}
    IN  IF r.result # Ok THEN ExecuteFailed(r.result, r.sys)
        ELSE IF ~IndexInBounds(cell_index, Len(nb.cells))
        THEN ExecuteFailed(Raise("IndexError", "cell_index"), r.sys)
        ELSE IF CellAt(nb, cell_index).cell_type # "code"
        THEN ExecuteFailed(Raise("ValueError", "not_code_cell"), r.sys)
        ELSE IF ~cached /\ server = "kernel_start"
        THEN ExecuteFailed(Raise("RuntimeError", "kernel_connect"), r.sys)
        ELSE IF server = "notebook_start"
        THEN [result |-> Raise("RuntimeError", "execute"), data |-> <<>>, sys |-> r.sys,
              kernel_cache |-> cache, kernel_starts |-> starts]
        ELSE IF server = "execute"
        THEN [result |-> Raise("RuntimeError", "execute"), data |-> <<>>,
              sys |-> r.sys \cup closed,
              kernel_cache |-> cache, kernel_starts |-> starts]
        ELSE [result |-> Ok,
              data |-> [k \in 1..Len(outputs) |-> ProcessedOutput(outputs[k])],
              sys |-> r.sys \cup closed,
              kernel_cache |-> cache, kernel_starts |-> starts]

\* SpecKernel: executions of cells of a notebook on servers that work or
\* fail, with paths, indexes and cell types the tool rejects.
UrlInputs == { <<>>, <<"h">>, <<"h", "/">> }
TokenInputs == {"t", "u"}

InitKernel ==
    /\ config = SmallConfig(<<WorkspaceRoot>>)
    /\ files = (NbA :> [cells |-> <<ExecutedCell, NoteCell>>, metadata |-> {}])
                 @@ (OutsideNb :> SecretNotebook)
    /\ dirs = InitDirs
    /\ call = NoCall
    /\ steps = 0
    /\ NoSessions

notebook_execute_cell(notebook_path, cell_index, server_url, token, server, outputs) ==
    LET out == execute_cell(notebook_path, cell_index, server_url, token, server, outputs,
                            steps + 1)
    IN  /\ steps < MaxSteps
        /\ call' = [op |-> "notebook_execute_cell", path |-> notebook_path,
                    index |-> cell_index, server_url |-> server_url, token |-> token,
                    server |-> server, result |-> out.result, value |-> None,
                    data |-> out.data, sys |-> out.sys] @@ NoArgs
        /\ kernel_cache' = out.kernel_cache
        /\ kernel_starts' = out.kernel_starts
        /\ steps' = steps + 1
        /\ UNCHANGED <<config, files, dirs, tasks>>

KernelExecuteCell ==
    \E i \in {0, 1}, u \in UrlInputs, t \in TokenInputs, s \in ServerOutcomes :
        notebook_execute_cell(NbA, i, u, t, s, <<Output(OverLimit)>>)

KernelExecuteRejected ==
    \E p \in {NbA, OutsideNb, RelativeNb}, i \in {0, MaxCells} :
        notebook_execute_cell(p, i, <<"h">>, "t", "ok", <<>>)

NextKernel ==
    \/ KernelExecuteCell
    \/ KernelExecuteRejected

SpecKernel == InitKernel /\ [][NextKernel]_vars


\* properties of SpecKernel
KeyOf(c) == CacheKey(c.path, c.server_url, c.token)

\* the call passes the path, bounds and cell-type validation
ExecutionValid(c) ==
    /\ Authorized(c.path)
    /\ isfile(realpath(c.path))
    /\ IndexInBounds(c.index, Len(files[realpath(c.path)].cells))
    /\ files[realpath(c.path)].cells[c.index + 1].cell_type = "code"

\* C40: over any sequence of execute_cell calls, each cache key has at most
\* one started kernel client, the cache holds exactly the started clients,
\* a call whose key is cached starts no kernel and keeps the cached client,
\* a call whose kernel start fails or that fails the path, bounds or
\* cell-type validation leaves the cache as it was and opens no notebook
\* connection, and a call that started a notebook connection has stopped
\* it when it returns, with success or with a failure.
C40_KernelCache ==
    [][LET c == call'
       IN  /\ \A a \in kernel_starts', b \in kernel_starts' : a.key = b.key => a = b
           /\ DOMAIN kernel_cache' = {a.key : a \in kernel_starts'}
           /\ \A a \in kernel_starts' : kernel_cache'[a.key] = a.kernel
           /\ KeyOf(c) \in DOMAIN kernel_cache
                 => kernel_cache' = kernel_cache /\ kernel_starts' = kernel_starts
           /\ (~ExecutionValid(c)
               \/ (c.server = "kernel_start" /\ KeyOf(c) \notin DOMAIN kernel_cache))
                 => /\ kernel_cache' = kernel_cache /\ kernel_starts' = kernel_starts
                    /\ c.result # Ok
                    /\ Sys("notebook_start", c.path) \notin c.sys
           /\ Sys("notebook_start", c.path) \in c.sys
                 => Sys("notebook_stop", c.path) \in c.sys
           /\ (ExecutionValid(c) /\ c.server \in {"ok", "notebook_stop"})
                 => /\ c.result = Ok
                    /\ KeyOf(c) \in DOMAIN kernel_cache'
                    /\ Sys("notebook_stop", c.path) \in c.sys]_vars

\* the second call, with the same key after normalisation of the URL, reuses
\* the kernel the first call started, fails in execution and has stopped
\* its notebook connection
C40_Witness ==
    /\ steps = 2
    /\ call.op = "notebook_execute_cell"
    /\ call.server_url = <<"h", "/">> /\ call.token = "t" /\ call.server = "execute"
    /\ call.result = Raise("RuntimeError", "execute")
    /\ kernel_starts = {[key |-> <<NbA, <<"h">>, "t">>, kernel |-> 1]}
    /\ kernel_cache[<<NbA, <<"h">>, "t">>] = 1
    /\ Sys("notebook_stop", NbA) \in call.sys


\* ------------------------------------------------------------------ save and load
\* SpecTrip: write_notebook and read_notebook called with documents whose
\* sources and outputs have several lines and whose metadata has keys of
\* the caller, of Jupyter and of nbformat.
SignedMetadata == {<<"kernel", "python3">>, <<"signature", "s">>}

TrustedCell ==
    CodeCell(1, <<"a", "\r", "\n", "a", "\n">>,
             << Output(<<"a", "\n", "a">>),
                DisplayData(<< <<"text/plain", <<"a", "\n">>>> >>),
                Error(<<"a">>, << <<"a", "\n">> >>) >>,
             1, {<<"k1", "v1">>, <<"trusted", "True">>})

TripCells ==
    { <<>>, <<ExecutedCell, NoteCell>>,
      <<CodeCell(1, <<"a", "\r", "\n", "a", "\n">>,
                 << Output(<<"a", "\n", "a">>),
                    DisplayData(<< <<"text/plain", <<"a", "\n">>>> >>) >>,
                 1, {<<"k1", "v1">>})>>,
      <<TrustedCell>> }

TripDocuments ==
    { [cells |-> cs, metadata |-> m] :
        cs \in TripCells, m \in { {}, {<<"kernel", "python3">>}, SignedMetadata } }

InitTrip ==
    /\ config = SmallConfig(<<WorkspaceRoot>>)
    /\ files = (NbA :> new_notebook)
    /\ dirs = InitDirs
    /\ call = NoCall
    /\ steps = 0
    /\ NoSessions

TripSave ==
    \E p \in {NbA, NbB}, d \in TripDocuments :
        LET w == write_notebook(p, d, config.allow_root_dirs)
        IN  /\ steps < MaxSteps
            /\ files' = w.files
            /\ call' = [op |-> "write_notebook", path |-> p, nb |-> d,
                        result |-> w.result, sys |-> w.sys] @@ NoArgs
            /\ steps' = steps + 1
            /\ UNCHANGED <<config, dirs, tasks, kernel_cache, kernel_starts>>

TripLoad ==
    \E p \in {NbA, NbB} :
        LET r == read_notebook(p, config.allow_root_dirs)
        IN  /\ steps < MaxSteps
            /\ call' = [op |-> "read_notebook", path |-> p, nb |-> r.nb,
                        result |-> r.result, sys |-> r.sys] @@ NoArgs
            /\ steps' = steps + 1
            /\ UNCHANGED <<config, files, dirs, tasks, kernel_cache, kernel_starts>>

NextTrip ==
    \/ TripSave
    \/ TripLoad

SpecTrip == InitTrip /\ [][NextTrip]_vars

\* properties of SpecTrip
\* C36 as stated: a load that follows a successful save of a document d to
\* the same path returns a document equal to d.
C36_RoundTrip ==
    [][(/\ call.op = "write_notebook" /\ call.result = Ok
        /\ call'.op = "read_notebook" /\ call'.path = call.path)
       => (call'.result = Ok /\ call'.nb = call.nb)]_vars

====
